---- MODULE Spec2Model ----
(***************************************************************************)
(* bids-duckdb: entity schema, entity extraction from file names, the      *)
(* three table loaders and the benchmark suite.                            *)
(*                                                                         *)
(* Text is modelled as a sequence of one-character strings, so that the    *)
(* regular expressions of the code work on characters.  A Python dict is a *)
(* sequence of <<key, value>> pairs with distinct keys, in insertion       *)
(* order.  A value that may be of several Python types is a record with a  *)
(* "kind" field.                                                           *)
(***************************************************************************)
EXTENDS Integers, Sequences, FiniteSets, TLC

VARIABLES
    \* ---- parse_bids_entities applied to one input
    filepath,       \* the argument of parse_bids_entities
    pairs,          \* the key-value tokens a well-formed name was built from
    entities,       \* the dict parse_bids_entities returned
    parsePc,        \* "input" | "done"
    entity_short_to_full,   \* the loader's self.entity_short_to_full
    n_short_name,     \* the argument of get_entity_column_name / get_entity_full_name
    n_use_full_names, \* the use_full_names argument of get_entity_column_name
    n_column_name,    \* what get_entity_column_name returned
    n_full_name,      \* what get_entity_full_name returned
    x_extracts,     \* per short name: what regexp_extract gave on filepath
    \* ---- one BIDSSchema instance
    s_entities,             \* self._entities
    s_entity_short_to_full, \* self._entity_short_to_full
    schemaCall,             \* the method called last
    schemaFetch,            \* outcome of the fetch the last call made, or "none"
    schemaRet,              \* what the last call returned or raised
    schemaCalls,            \* number of calls made
    g_cached,               \* the lru_cache of get_default_schema holds the instance
    g_instances,            \* number of BIDSSchema() made by get_default_schema
    \* ---- one BenchmarkSuite and the caller of run_benchmark / run_all
    b_world,        \* what the dataset and the engine do: see BenchWorlds
    b_approaches,   \* the approaches argument of the current run_all call
    b_queries,      \* the queries of the current run_all call (names, in order)
    b_results,      \* self.results
    b_pc,           \* "idle" | "loop" | "returned" | "printed"
    b_i,            \* number of approaches the loop of run_all has finished
    b_trace,        \* per finished approach: what _benchmark_approach did
    b_raised,       \* the exception that reached the caller, or "none"
    b_output,       \* the load-time rows of the comparison table print_summary printed
    b_runs,         \* number of run_all calls made
    \* ---- loaders over one dataset, and the engine sessions they use
    d_root,         \* the root directory exists
    d_files,        \* the files under the root (ids of DatasetFiles)
    e_catalog,      \* per engine session: the object each table name denotes
    e_functions,    \* per engine session: the functions registered, by name
    l_made,         \* the loaders whose constructor has returned
    l_con,          \* per loader: self.con, the session it uses
    l_patterns,     \* the glob patterns the callers pass
    l_flags,        \* the use_full_names values the callers pass
    l_registered,   \* per TableFunctionLoader: self._functions_registered
    l_ret,          \* per loader: what its last call returned or raised
    l_last,         \* the loader called last, or "none"
    l_loads,        \* number of calls made on the loaders
    l_scan          \* the last consumption of the tabular scanner

parseVars == <<filepath, pairs, entities, parsePc, entity_short_to_full,
               n_short_name, n_use_full_names, n_column_name, n_full_name,
               x_extracts>>
schemaVars == <<s_entities, s_entity_short_to_full, schemaCall, schemaFetch,
                schemaRet, schemaCalls, g_cached, g_instances>>
benchVars == <<b_world, b_approaches, b_queries, b_results, b_pc, b_i, b_trace,
               b_raised, b_output, b_runs>>
loadVars == <<d_root, d_files, e_catalog, e_functions, l_made, l_con, l_patterns, l_flags,
              l_registered, l_ret, l_last, l_loads, l_scan>>
vars == <<parseVars, schemaVars, benchVars, loadVars>>

----------------------------------------------------------------------------
(* Bounds of the model *)

\* pieces concatenated into a free-form input of parse_bids_entities
MaxPieces == 4
\* key-value tokens in a well-formed name
MaxPairs == 2
\* calls made on one BIDSSchema instance
MaxSchemaCalls == 3
\* approach names in one run_all call
MaxApproaches == 2
\* run_all calls on one BenchmarkSuite
MaxRuns == 2
\* a measured duration, in clock ticks (at least 1)
MaxDuration == 2
\* calls made on the loaders of one dataset
MaxLoads == 3

----------------------------------------------------------------------------
(* Text *)

Lower == {"a","b","c","d","e","f","g","h","i","j","k","l","m",
          "n","o","p","q","r","s","t","u","v","w","x","y","z"}
Upper == {"A","B","C","D","E","F","G","H","I","J","K","L","M",
          "N","O","P","Q","R","S","T","U","V","W","X","Y","Z"}
Digit == {"0","1","2","3","4","5","6","7","8","9"}

\* the character class [a-zA-Z0-9]
IsAlnum(c) == c \in Lower \cup Upper \cup Digit

w_sub == <<"s","u","b">>
w_ses == <<"s","e","s">>
w_task == <<"t","a","s","k">>
w_acq == <<"a","c","q">>
w_ce == <<"c","e">>
w_rec == <<"r","e","c">>
w_dir == <<"d","i","r">>
w_run == <<"r","u","n">>
w_echo == <<"e","c","h","o">>
w_space == <<"s","p","a","c","e">>
w_desc == <<"d","e","s","c">>
w_sample == <<"s","a","m","p","l","e">>
w_foo == <<"f","o","o">>
w_01 == <<"0","1">>
w_02 == <<"0","2">>
w_pre == <<"p","r","e">>
w_rest == <<"r","e","s","t">>
w_func == <<"f","u","n","c">>
w_events == <<"e","v","e","n","t","s">>
w_participants == <<"p","a","r","t","i","c","i","p","a","n","t","s">>
w_json == <<"j","s","o","n">>
w_tsv == <<"t","s","v">>
w_subject == <<"s","u","b","j","e","c","t">>
w_session == <<"s","e","s","s","i","o","n">>
w_acquisition == <<"a","c","q","u","i","s","i","t","i","o","n">>
w_ceagent == <<"c","e","a","g","e","n","t">>
w_reconstruction == <<"r","e","c","o","n","s","t","r","u","c","t","i","o","n">>
w_direction == <<"d","i","r","e","c","t","i","o","n">>
w_description == <<"d","e","s","c","r","i","p","t","i","o","n">>
w_filepath == <<"f","i","l","e","p","a","t","h">>
w_filename == <<"f","i","l","e","n","a","m","e">>
w_onset == <<"o","n","s","e","t">>
w_duration == <<"d","u","r","a","t","i","o","n">>
w_trial_type == <<"t","r","i","a","l","_","t","y","p","e">>
w_participant_id == <<"p","a","r","t","i","c","i","p","a","n","t","_","i","d">>
w_age == <<"a","g","e">>
w_sex == <<"s","e","x">>
w_filename_1 == <<"f","i","l","e","n","a","m","e","_","1">>
v_1_0 == <<"1",".","0">>
v_2_0 == <<"2",".","0">>
v_3_0 == <<"3",".","0">>
v_A == <<"A">>
v_B == <<"B">>
v_X == <<"X">>
v_25 == <<"2","5">>
v_30 == <<"3","0">>
v_M == <<"M">>
v_F == <<"F">>
v_sub_01 == <<"s","u","b","-","0","1">>
v_sub_02 == <<"s","u","b","-","0","2">>
c_dash == <<"-">>
c_us == <<"_">>
c_dot == <<".">>
c_slash == <<"/">>

RECURSIVE Concat(_)
\* the concatenation of a sequence of texts
Concat(ss) == IF ss = <<>> THEN <<>> ELSE Head(ss) \o Concat(Tail(ss))

\* the text w occurs in s with its first character at position i
OccursAtPos(s, w, i) == i + Len(w) - 1 <= Len(s) /\ SubSeq(s, i, i + Len(w) - 1) = w

\* s[a..b], empty when a > b
Slice(s, a, b) == IF a > b THEN <<>> ELSE SubSeq(s, a, b)

----------------------------------------------------------------------------
(* Python dict: insertion-ordered pairs with distinct keys *)

DictKeys(d) == {d[i][1] : i \in DOMAIN d}
DictHas(d, k) == \E i \in DOMAIN d : d[i][1] = k
DictGet(d, k) == d[CHOOSE i \in DOMAIN d : d[i][1] = k][2]
\* d[k] = v: a new key goes last, an old key keeps its place
DictSet(d, k, v) ==
    IF DictHas(d, k)
    THEN [i \in DOMAIN d |-> IF d[i][1] = k THEN <<k, v>> ELSE d[i]]
    ELSE Append(d, <<k, v>>)
\* d.update(e): a key of d keeps its place and takes the value of e, the
\* other keys of e follow in the order of e
DictUpdate(d, e) ==
    [i \in DOMAIN d |-> IF DictHas(e, d[i][1]) THEN <<d[i][1], DictGet(e, d[i][1])>>
                         ELSE d[i]]
        \o SelectSeq(e, LAMBDA kv : ~DictHas(d, kv[1]))
\* the dict as a set of (key, value) pairs
DictItems(d) == {d[i] : i \in DOMAIN d}

----------------------------------------------------------------------------
(* BIDSSchema (schema.py) *)

\* a Python value: kind is its type, val its content where the model needs it
NoneV == [kind |-> "None", val |-> <<>>]
DictV(d) == [kind |-> "dict", val |-> d]

\* one entity definition as schema.py:58-68 writes it
Defn(short, display) ==
    << <<"name", short>>, <<"display_name", display>>, <<"type", "string">> >>
IndexDefn(short, display) == Append(Defn(short, display), <<"format", "index">>)

\* BIDSSchema._get_fallback_entities
FallbackEntities ==
    << <<w_subject, Defn(w_sub, "Subject")>>,
       <<w_session, Defn(w_ses, "Session")>>,
       <<w_task, Defn(w_task, "Task")>>,
       <<w_acquisition, Defn(w_acq, "Acquisition")>>,
       <<w_ceagent, Defn(w_ce, "Contrast Enhancing Agent")>>,
       <<w_reconstruction, Defn(w_rec, "Reconstruction")>>,
       <<w_direction, Defn(w_dir, "Phase Encoding Direction")>>,
       <<w_run, IndexDefn(w_run, "Run")>>,
       <<w_echo, IndexDefn(w_echo, "Echo")>>,
       <<w_space, Defn(w_space, "Space")>>,
       <<w_description, Defn(w_desc, "Description")>> >>

\* documents the remote entities.yaml may parse to (yaml.safe_load's result):
\* a well-formed definition set other than the fallback, an empty document,
\* scalars, a list, and a mapping with an entry that has no `name`
RemoteEntities ==
    << <<w_subject, Defn(w_sub, "Subject")>>,
       <<w_session, Defn(w_ses, "Session")>>,
       <<w_sample, Defn(w_sample, "Sample")>>,
       <<w_task, Defn(w_task, "Task")>> >>
NamelessEntities ==
    << <<w_subject, Defn(w_sub, "Subject")>>,
       <<w_session, << <<"display_name", "Session">> >> >> >>
Documents ==
    { DictV(RemoteEntities), DictV(NamelessEntities), NoneV,
      [kind |-> "int", val |-> <<>>], [kind |-> "str", val |-> <<>>],
      [kind |-> "list", val |-> <<>>] }

\* what requests.get / raise_for_status / yaml.safe_load do on one call
FetchFailures == {"ConnectionError", "Timeout", "HTTPError", "YAMLError"}
Fetches ==
    [status : FetchFailures, doc : {NoneV}] \cup [status : {"ok"}, doc : Documents]

\* len(x) raises TypeError for None and for an int
HasLen(v) == v.kind \in {"dict", "list", "str"}

\* the classes `except Exception` catches
CaughtByExceptException ==
    FetchFailures \cup {"TypeError", "AttributeError", "ValueError", "FileNotFoundError"}
CaughtRequestsOnly == {"ConnectionError", "Timeout", "HTTPError"}

\* the try block of load_entities (schema.py:43-48): the exception it ends
\* with, the value of self._entities it leaves, and the value it returns
load_entities_try(fetch) ==
    IF fetch.status # "ok"
    THEN [exc |-> fetch.status, entities |-> NoneV, val |-> NoneV]
    ELSE IF ~HasLen(fetch.doc)
    THEN [exc |-> "TypeError", entities |-> fetch.doc, val |-> NoneV]
    ELSE [exc |-> "none", entities |-> fetch.doc, val |-> fetch.doc]

load_entities_with(ents, fetch, caught, fallback) ==
    IF ents.kind # "None"
    THEN [entities |-> ents, fetched |-> "none", exc |-> "none", val |-> ents]
    ELSE LET t == load_entities_try(fetch) IN
         IF t.exc = "none"
         THEN [entities |-> t.entities, fetched |-> fetch.status,
               exc |-> "none", val |-> t.val]
         ELSE IF t.exc \in caught
         THEN [entities |-> t.entities, fetched |-> fetch.status,
               exc |-> "none", val |-> DictV(fallback)]
         ELSE [entities |-> t.entities, fetched |-> fetch.status,
               exc |-> t.exc, val |-> NoneV]

load_entities_narrow_except(ents, fetch) ==
    load_entities_with(ents, fetch, CaughtRequestsOnly, FallbackEntities)
\* BIDSSchema.load_entities: ents is self._entities before the call, fetch what
\* the network gives if it is asked
load_entities(ents, fetch) ==
    load_entities_with(ents, fetch, CaughtByExceptException, FallbackEntities)

\* definition.get(key, default) on one entity definition
DefnGet(defn, key, default) == IF DictHas(defn, key) THEN DictGet(defn, key) ELSE default

RECURSIVE ShortToFull(_, _)
\* the loop of get_entity_mapping (schema.py:83-86) over entities.items()
ShortToFull(items, acc) ==
    IF items = <<>> THEN acc
    ELSE LET full == Head(items)[1]
             short == DefnGet(Head(items)[2], "name", <<>>)
         IN  ShortToFull(Tail(items),
                         IF short # <<>> THEN DictSet(acc, short, full) ELSE acc)

\* BIDSSchema.get_entity_mapping: s2f is self._entity_short_to_full
get_entity_mapping(ents, s2f, fetch) ==
    IF s2f.kind # "None"
    THEN [entities |-> ents, s2f |-> s2f, fetched |-> "none", exc |-> "none", val |-> s2f]
    ELSE LET l == load_entities(ents, fetch) IN
         IF l.exc # "none"
         THEN [entities |-> l.entities, s2f |-> s2f, fetched |-> l.fetched,
               exc |-> l.exc, val |-> NoneV]
         ELSE IF l.val.kind # "dict"
         THEN \* entities.items() on a list, str or int
              [entities |-> l.entities, s2f |-> DictV(<<>>), fetched |-> l.fetched,
               exc |-> "AttributeError", val |-> NoneV]
         ELSE LET m == DictV(ShortToFull(l.val.val, <<>>)) IN
              [entities |-> l.entities, s2f |-> m, fetched |-> l.fetched,
               exc |-> "none", val |-> m]

\* BIDSSchema.get_all_entity_short_names: list(self.get_entity_mapping().keys())
get_all_entity_short_names(ents, s2f, fetch) ==
    LET g == get_entity_mapping(ents, s2f, fetch) IN
    IF g.exc # "none" THEN g
    ELSE [g EXCEPT !.val = [kind |-> "list", val |-> [i \in DOMAIN g.val.val |-> g.val.val[i][1]]]]

\* str.title() on a name: a letter that follows a letter is lowered, any
\* other letter is raised
LowerSeq == <<"a","b","c","d","e","f","g","h","i","j","k","l","m",
              "n","o","p","q","r","s","t","u","v","w","x","y","z">>
UpperSeq == <<"A","B","C","D","E","F","G","H","I","J","K","L","M",
              "N","O","P","Q","R","S","T","U","V","W","X","Y","Z">>
ToUpper(c) == IF c \in Lower THEN UpperSeq[CHOOSE i \in DOMAIN LowerSeq : LowerSeq[i] = c] ELSE c
ToLower(c) == IF c \in Upper THEN LowerSeq[CHOOSE i \in DOMAIN UpperSeq : UpperSeq[i] = c] ELSE c
Title(s) ==
    [i \in DOMAIN s |->
        IF i > 1 /\ s[i - 1] \in Lower \cup Upper THEN ToLower(s[i]) ELSE ToUpper(s[i])]

RECURSIVE ShortToDisplay(_, _)
\* the loop of get_entity_display_names (schema.py:100-104) over entities.values()
ShortToDisplay(items, acc) ==
    IF items = <<>> THEN acc
    ELSE LET defn == Head(items)[2]
             short == DefnGet(defn, "name", <<>>)
             display == DefnGet(defn, "display_name", Title(short))
         IN  ShortToDisplay(Tail(items),
                            IF short # <<>> THEN DictSet(acc, short, display) ELSE acc)

\* BIDSSchema.get_entity_display_names: it asks load_entities on every call
get_entity_display_names(ents, fetch) ==
    LET l == load_entities(ents, fetch) IN
    IF l.exc # "none" THEN l
    ELSE IF l.val.kind # "dict"
    THEN \* entities.values() on a list, str or int
         [l EXCEPT !.exc = "AttributeError", !.val = NoneV]
    ELSE [l EXCEPT !.val = DictV(ShortToDisplay(l.val.val, <<>>))]

\* a BIDSSchema object, as a value: the n-th one get_default_schema made
SchemaObject(n) == [kind |-> "BIDSSchema", val |-> n]

\* get_default_schema under @lru_cache(maxsize=1): the cached instance when
\* there is one; else a new BIDSSchema whose load_entities() is called once
\* and which is cached when the body returns
get_default_schema(cached, instances, ents, fetch) ==
    IF cached
    THEN [entities |-> ents, fetched |-> "none", exc |-> "none",
          val |-> SchemaObject(instances), cached |-> TRUE, instances |-> instances]
    ELSE LET l == load_entities(NoneV, fetch) IN
         [entities |-> l.entities, fetched |-> l.fetched, exc |-> l.exc,
          val |-> IF l.exc = "none" THEN SchemaObject(instances + 1) ELSE NoneV,
          cached |-> l.exc = "none", instances |-> instances + 1]

----------------------------------------------------------------------------
(* BIDSLoader.parse_bids_entities (base.py) *)

\* the positions of p at which a component starts, and the position at which
\* the component that starts at a ends ("/" separates components)
ComponentStarts(p) ==
    {a \in 1..Len(p) : p[a] # "/" /\ (a = 1 \/ p[a - 1] = "/")}
ComponentEnd(p, a) ==
    LET seps == {i \in a..Len(p) : p[i] = "/"} \cup {Len(p) + 1}
    IN  (CHOOSE e \in seps : \A x \in seps : e <= x) - 1

\* Path(p).name: the last component of p, where empty components and "."
\* components do not count; "" when there is none
PathName(p) ==
    LET starts == {a \in ComponentStarts(p) : SubSeq(p, a, ComponentEnd(p, a)) # <<".">>}
    IN  IF starts = {} THEN <<>>
        ELSE LET last == CHOOSE a \in starts : \A x \in starts : x <= a
             IN  SubSeq(p, last, ComponentEnd(p, last))

RECURSIVE RunEnd(_, _)
\* the first position at or after i that holds no alphanumeric character
\* (Len(s) + 1 when the run reaches the end): where [a-zA-Z0-9]+ stops
RunEnd(s, i) ==
    IF i > Len(s) \/ ~IsAlnum(s[i]) THEN i ELSE RunEnd(s, i + 1)

\* ([a-zA-Z0-9]+)-([a-zA-Z0-9]+) matches with its first character at i: the
\* greedy key run ends right before a hyphen that an alphanumeric follows (a
\* shorter key is followed by an alphanumeric, never by the hyphen)
MatchesAt(s, i) ==
    /\ i <= Len(s)
    /\ IsAlnum(s[i])
    /\ LET e == RunEnd(s, i) IN
       /\ e + 1 <= Len(s)
       /\ s[e] = "-"
       /\ IsAlnum(s[e + 1])

MatchOf_one_char_value(s, i) ==
    LET e == RunEnd(s, i)
    IN  [key |-> Slice(s, i, e - 1), value |-> Slice(s, e + 1, e + 1), end |-> e + 2]
\* the groups and the end of the match that starts at i
MatchOf(s, i) ==
    LET e == RunEnd(s, i)
        f == RunEnd(s, e + 1)
    IN  [key |-> Slice(s, i, e - 1), value |-> Slice(s, e + 1, f - 1), end |-> f]

RECURSIVE FindIter(_, _)
\* re.finditer(pattern, s) from position pos: the leftmost match at or after
\* pos, then the matches after its end
FindIter(s, pos) ==
    LET starts == {i \in pos..Len(s) : MatchesAt(s, i)} IN
    IF starts = {} THEN <<>>
    ELSE LET m == MatchOf(s, CHOOSE i \in starts : \A x \in starts : i <= x)
         IN  <<m>> \o FindIter(s, m.end)

RECURSIVE KeepKnownFirst(_, _, _)
\* the loop over the matches with a key's first value kept
KeepKnownFirst(matches, known, acc) ==
    IF matches = <<>> THEN acc
    ELSE LET m == Head(matches) IN
         KeepKnownFirst(Tail(matches), known,
                        IF m.key \in known /\ ~DictHas(acc, m.key)
                        THEN DictSet(acc, m.key, m.value) ELSE acc)

RECURSIVE KeepKnown(_, _, _)
\* the loop of base.py:84-88 over the matches
KeepKnown(matches, known, acc) ==
    IF matches = <<>> THEN acc
    ELSE LET m == Head(matches) IN
         KeepKnown(Tail(matches), known,
                   IF m.key \in known THEN DictSet(acc, m.key, m.value) ELSE acc)

RECURSIVE KeepAll(_, _, _)
KeepAll(matches, known, acc) ==
    IF matches = <<>> THEN acc
    ELSE KeepAll(Tail(matches), known, DictSet(acc, Head(matches).key, Head(matches).value))

parse_bids_entities_unfiltered(path, s2f) ==
    KeepAll(FindIter(PathName(path), 1), DictKeys(s2f), <<>>)
\* BIDSLoader.parse_bids_entities; s2f is self.entity_short_to_full
parse_bids_entities(path, s2f) ==
    KeepKnown(FindIter(PathName(path), 1), DictKeys(s2f), <<>>)

\* BIDSLoader.get_entity_full_name
get_entity_full_name(s2f, short_name) ==
    IF DictHas(s2f, short_name) THEN DictGet(s2f, short_name) ELSE short_name

\* get_entity_column_name without its use_full_names test
get_entity_column_name_always_full(s2f, short_name, use_full_names) ==
    get_entity_full_name(s2f, short_name)

\* BIDSLoader.get_entity_column_name
get_entity_column_name(s2f, short_name, use_full_names) ==
    IF use_full_names THEN get_entity_full_name(s2f, short_name) ELSE short_name

----------------------------------------------------------------------------
(* Inputs of parse_bids_entities *)

\* the mappings a loader may hold: from the fallback set or from a fetched one
LoaderMappings ==
    { ShortToFull(FallbackEntities, <<>>), ShortToFull(RemoteEntities, <<>>) }

FreePieces == {w_sub, w_ce, w_space, w_01, c_dash, c_us, c_slash, c_dot}
FreeNames ==
    UNION { {Concat(ps) : ps \in [1..n -> FreePieces]} : n \in 0..MaxPieces }

TokenKeys == {w_sub, w_ses, w_space, w_foo, w_01}
TokenValues == {w_01, w_pre, w_sub}
TokenLists ==
    UNION { {ps \in [1..n -> TokenKeys \X TokenValues] :
                \A i, j \in 1..n : i # j => ps[i][1] # ps[j][1]} : n \in 0..MaxPairs }
Suffixes == {w_events, w_sub}
\* token lists in which a key occurs more than once
RepeatingTokenLists ==
    UNION { {ps \in [1..n -> TokenKeys \X TokenValues] :
                \E i, j \in 1..n : i # j /\ ps[i][1] = ps[j][1]} : n \in 0..MaxPairs }

\* k1-v1_k2-v2_..._suffix.tsv
BidsName(tokens, suffix) ==
    Concat([i \in DOMAIN tokens |-> tokens[i][1] \o c_dash \o tokens[i][2] \o c_us])
        \o suffix \o c_dot \o w_tsv

\* no name method was called yet
NamesIdle ==
    /\ n_short_name = <<>>
    /\ n_use_full_names = FALSE
    /\ n_column_name = <<>>
    /\ n_full_name = <<>>
    /\ x_extracts = <<>>

ParseIdle ==
    /\ filepath = <<>>
    /\ pairs = [wellFormed |-> FALSE, tokens |-> <<>>]
    /\ entities = <<>>
    /\ parsePc = "idle"
    /\ entity_short_to_full = <<>>
    /\ NamesIdle

SchemaInit ==
    /\ s_entities = NoneV
    /\ s_entity_short_to_full = NoneV
    /\ schemaCall = "none"
    /\ schemaFetch = "none"
    /\ schemaRet = [exc |-> "none", val |-> NoneV]
    /\ schemaCalls = 0
    /\ g_cached = FALSE
    /\ g_instances = 0

ParseInit ==
    /\ \/ /\ filepath \in FreeNames
          /\ pairs = [wellFormed |-> FALSE, tokens |-> <<>>]
       \/ \E ts \in TokenLists, sfx \in Suffixes :
             /\ filepath = BidsName(ts, sfx)
             /\ pairs = [wellFormed |-> TRUE, tokens |-> ts]
       \/ \E ts \in RepeatingTokenLists, sfx \in Suffixes :
             /\ filepath = BidsName(ts, sfx)
             /\ pairs = [wellFormed |-> FALSE, tokens |-> ts]
    /\ entities = <<>>
    /\ parsePc = "input"
    /\ entity_short_to_full \in LoaderMappings
    /\ NamesIdle

\* loader.parse_bids_entities(filepath)
Parse ==
    /\ parsePc = "input"
    /\ entities' = parse_bids_entities(filepath, entity_short_to_full)
    /\ parsePc' = "done"
    /\ UNCHANGED <<filepath, pairs, entity_short_to_full>>
    /\ UNCHANGED <<n_short_name, n_use_full_names, n_column_name, n_full_name>>
    /\ UNCHANGED x_extracts
    /\ UNCHANGED <<schemaVars, benchVars, loadVars>>

----------------------------------------------------------------------------
(* Inputs of get_entity_full_name and get_entity_column_name *)

\* the mappings BIDSLoader.__init__ can take from schema.get_entity_mapping():
\* one per outcome of the fetch that lets the call return
NameMappings ==
    { r.val.val : r \in { q \in { get_entity_mapping(NoneV, NoneV, f) : f \in Fetches } :
                             q.exc = "none" } }

\* the short names and the full names of those mappings, and names of neither
Names ==
    UNION { { kv[1] : kv \in DictItems(m) } \cup { kv[2] : kv \in DictItems(m) } :
            m \in NameMappings }
        \cup {w_foo, w_01, <<>>}

NamesInit ==
    /\ filepath = <<>>
    /\ pairs = [wellFormed |-> FALSE, tokens |-> <<>>]
    /\ entities = <<>>
    /\ parsePc = "idle"
    /\ entity_short_to_full \in NameMappings
    /\ NamesIdle

\* loader.get_entity_column_name(short_name, use_full_names) and
\* loader.get_entity_full_name(short_name)
GetEntityColumnName ==
    \E n \in Names, u \in BOOLEAN :
        /\ n_short_name' = n
        /\ n_use_full_names' = u
        /\ n_column_name' = get_entity_column_name(entity_short_to_full, n, u)
        /\ n_full_name' = get_entity_full_name(entity_short_to_full, n)
        /\ parsePc' = "done"
        /\ UNCHANGED <<filepath, pairs, entities, entity_short_to_full, x_extracts>>
        /\ UNCHANGED <<schemaVars, benchVars, loadVars>>

----------------------------------------------------------------------------
(* Calls on one BIDSSchema instance *)

SchemaReturn(call, r) ==
    /\ schemaCall' = call
    /\ schemaFetch' = r.fetched
    /\ schemaRet' = [exc |-> r.exc, val |-> r.val]
    /\ s_entities' = r.entities
    /\ schemaCalls' = schemaCalls + 1
    /\ UNCHANGED <<parseVars, benchVars, loadVars>>

\* schema.load_entities()
LoadEntities ==
    /\ schemaCalls < MaxSchemaCalls
    /\ \E fetch \in Fetches :
          /\ SchemaReturn("load_entities", load_entities(s_entities, fetch))
          /\ UNCHANGED <<s_entity_short_to_full, g_cached, g_instances>>

\* schema.get_entity_mapping()
GetEntityMapping ==
    /\ schemaCalls < MaxSchemaCalls
    /\ \E fetch \in Fetches :
          LET r == get_entity_mapping(s_entities, s_entity_short_to_full, fetch) IN
          /\ SchemaReturn("get_entity_mapping", r)
          /\ s_entity_short_to_full' = r.s2f
          /\ UNCHANGED <<g_cached, g_instances>>

\* schema.get_all_entity_short_names()
GetAllEntityShortNames ==
    /\ schemaCalls < MaxSchemaCalls
    /\ \E fetch \in Fetches :
          LET r == get_all_entity_short_names(s_entities, s_entity_short_to_full, fetch) IN
          /\ SchemaReturn("get_all_entity_short_names", r)
          /\ s_entity_short_to_full' = r.s2f
          /\ UNCHANGED <<g_cached, g_instances>>

\* schema.get_entity_display_names()
GetEntityDisplayNames ==
    /\ schemaCalls < MaxSchemaCalls
    /\ \E fetch \in Fetches :
          /\ SchemaReturn("get_entity_display_names",
                          get_entity_display_names(s_entities, fetch))
          /\ UNCHANGED <<s_entity_short_to_full, g_cached, g_instances>>

\* get_default_schema()
GetDefaultSchema ==
    /\ schemaCalls < MaxSchemaCalls
    /\ \E fetch \in Fetches :
          LET r == get_default_schema(g_cached, g_instances, s_entities, fetch) IN
          /\ SchemaReturn("get_default_schema", r)
          /\ g_cached' = r.cached
          /\ g_instances' = r.instances
          /\ s_entity_short_to_full' =
                IF g_cached THEN s_entity_short_to_full ELSE NoneV

\* a method called on the instance get_default_schema returned
OnDefaultSchema(Method) == g_cached /\ Method
DefaultLoadEntities == OnDefaultSchema(LoadEntities)
DefaultGetEntityMapping == OnDefaultSchema(GetEntityMapping)
DefaultGetEntityDisplayNames == OnDefaultSchema(GetEntityDisplayNames)
DefaultGetAllEntityShortNames == OnDefaultSchema(GetAllEntityShortNames)

----------------------------------------------------------------------------
(* The dataset and the engine (duckdb) as the loaders use them *)

\* NULL, as a cell of a relation: no text is made of a four-letter character
Null == <<"NULL">>

EventsHeader == <<w_onset, w_duration, w_trial_type>>
ParticipantsHeader == <<w_participant_id, w_age, w_sex>>
\* an events file that has columns of its own named task and filepath
OwnColumnsHeader == <<w_onset, w_task, w_filepath>>

\* the root directory: a temporary directory, whose name holds no hyphen
RootPath == <<"/", "t", "m", "p">>

\* The files a dataset may hold: the three files of the fixture of
\* tests/test_base.py and one more events file.  path is the file's path under
\* the root, ord the file's place when paths are sorted.
DatasetFiles ==
    { [id |-> "participants", ord |-> 1,
       path |-> Concat(<<RootPath, c_slash, w_participants, c_dot, w_tsv>>),
       header |-> ParticipantsHeader,
       rows |-> << <<v_sub_01, v_25, v_M>>, <<v_sub_02, v_30, v_F>> >>],
      [id |-> "sub-01_task", ord |-> 3,
       path |-> Concat(<<RootPath, c_slash, w_sub, c_dash, w_01, c_slash, w_func, c_slash,
                         w_sub, c_dash, w_01, c_us, w_task, c_dash, w_rest, c_us,
                         w_events, c_dot, w_tsv>>),
       header |-> EventsHeader,
       rows |-> << <<v_1_0, v_2_0, v_A>>, <<v_3_0, v_2_0, v_B>> >>],
      [id |-> "sub-02_task", ord |-> 4,
       path |-> Concat(<<RootPath, c_slash, w_sub, c_dash, w_02, c_slash, w_func, c_slash,
                         w_sub, c_dash, w_02, c_us, w_task, c_dash, w_rest, c_us,
                         w_events, c_dot, w_tsv>>),
       header |-> EventsHeader,
       rows |-> << <<v_3_0, v_2_0, v_A>> >>],
      [id |-> "sub-02_ses_task_run", ord |-> 5,
       path |-> Concat(<<RootPath, c_slash, w_sub, c_dash, w_02, c_slash, w_ses, c_dash, w_pre, c_slash,
                         w_func, c_slash,
                         w_sub, c_dash, w_02, c_us, w_ses, c_dash, w_pre, c_us,
                         w_task, c_dash, w_rest, c_us, w_run, c_dash, w_01, c_us,
                         w_events, c_dot, w_tsv>>),
       header |-> EventsHeader,
       rows |-> << <<v_1_0, v_2_0, v_X>> >>],
      [id |-> "sub-01_task_own_columns", ord |-> 2,
       path |-> Concat(<<RootPath, c_slash, w_sub, c_dash, w_01, c_slash, w_func, c_slash,
                         w_sub, c_dash, w_01, c_us, w_task, c_dash, w_pre, c_us,
                         w_events, c_dot, w_tsv>>),
       header |-> OwnColumnsHeader,
       rows |-> << <<v_1_0, v_A, v_B>>, <<v_3_0, v_B, v_X>> >>] }

FileIds == {f.id : f \in DatasetFiles}
FileOf(id) == CHOOSE f \in DatasetFiles : f.id = id
\* the fixture tree of tests/test_base.py
FixtureFiles == {"participants", "sub-01_task", "sub-02_ses_task_run"}
\* the files whose columns share no name with the columns a loader adds
PlainFiles == FixtureFiles \cup {"sub-02_task"}
\* files among which one has columns named like the columns a loader adds
MergeFiles == {"participants", "sub-01_task", "sub-01_task_own_columns"}


\* the text s ends with the text w
EndsWith(s, w) == Len(s) >= Len(w) /\ SubSeq(s, Len(s) - Len(w) + 1, Len(s)) = w

\* the glob patterns of the model, and whether a path under the root matches one
GlobMatches(pattern, path) ==
    \/ pattern = "**/*.tsv" /\ EndsWith(path, c_dot \o w_tsv)
    \/ pattern = "**/*.json" /\ EndsWith(path, c_dot \o w_json)

RECURSIVE SeqOfSet(_, _)
\* the files of ids in the order given by rank
SeqOfSet(ids, rank) ==
    IF ids = {} THEN <<>>
    ELSE LET first == CHOOSE x \in ids : \A y \in ids : rank[x] <= rank[y]
         IN  <<FileOf(first)>> \o SeqOfSet(ids \ {first}, rank)

\* the ids of the files that match the pattern
Matched(files, pattern) == {id \in files : GlobMatches(pattern, FileOf(id).path)}

\* the engine's glob: the matching files, sorted by path
EngineGlob(files, pattern) ==
    SeqOfSet(Matched(files, pattern), [id \in FileIds |-> FileOf(id).ord])

\* the orders Path.glob may list the matching files in (directory order)
GlobOrders(files, pattern) ==
    LET ids == Matched(files, pattern)
        n == Cardinality(ids)
    IN  { [id \in FileIds |-> IF id \in ids THEN r[id] ELSE 0] :
            r \in {q \in [ids -> 1..n] : \A a, b \in ids : a # b => q[a] # q[b]} }

\* a relation: column names, and rows that remember the file they came from
NoRel == [cols |-> <<>>, rows |-> <<>>]

\* the positions of s at which the pattern  short "-" ([a-zA-Z0-9]+)  matches
ExtractStarts(s, short) ==
    { i \in 1..Len(s) :
        /\ OccursAtPos(s, short \o c_dash, i)
        /\ i + Len(short) + 1 <= Len(s)
        /\ IsAlnum(s[i + Len(short) + 1]) }

\* regexp_extract(s, 'short-([a-zA-Z0-9]+)', 1): group 1 of the first match
\* anywhere in s, and the empty string when there is no match
regexp_extract(s, short) ==
    LET starts == ExtractStarts(s, short) IN
    IF starts = {} THEN <<>>
    ELSE LET i == CHOOSE x \in starts : \A y \in starts : x <= y
             v == i + Len(short) + 1
         IN  Slice(s, v, RunEnd(s, v) - 1)

\* regexp_extract on the path of each dataset file, for each short name of the
\* schema, computed once
ShortNames == UNION {DictKeys(m) : m \in LoaderMappings}
PathExtracts ==
    [id \in FileIds |-> [short \in ShortNames |-> regexp_extract(FileOf(id).path, short)]]

\* parse_bids_entities and Path.name on the path of each dataset file, for each
\* mapping a loader may hold, computed once
PathEntities ==
    [id \in FileIds |-> [m \in LoaderMappings |-> parse_bids_entities(FileOf(id).path, m)]]
PathNames == [id \in FileIds |-> PathName(FileOf(id).path)]

\* the source paths given to both extractions: a directory part that may
\* carry an entity token, then a file name of key-value tokens in which a key
\* may repeat
ExtractDirs == {<<>>, w_ses \o c_dash \o w_pre \o c_slash, w_func \o c_slash}
ExtractTokenLists == UNION { [1..n -> TokenKeys \X TokenValues] : n \in 0..MaxPairs }
ExtractPaths ==
    { d \o BidsName(ts, w_events) : d \in ExtractDirs, ts \in ExtractTokenLists }

ExtractInit ==
    /\ filepath \in ExtractPaths
    /\ pairs = [wellFormed |-> FALSE, tokens |-> <<>>]
    /\ entities = <<>>
    /\ parsePc = "input"
    /\ entity_short_to_full \in LoaderMappings
    /\ NamesIdle

\* the entity columns SQLRegexLoader selects for a row whose filename column
\* is filepath, and parse_bids_entities(filepath) on the same path
Extract ==
    /\ parsePc = "input"
    /\ x_extracts' = [short \in DictKeys(entity_short_to_full) |->
                         regexp_extract(filepath, short)]
    /\ entities' = parse_bids_entities(filepath, entity_short_to_full)
    /\ parsePc' = "done"
    /\ UNCHANGED <<filepath, pairs, entity_short_to_full>>
    /\ UNCHANGED <<n_short_name, n_use_full_names, n_column_name, n_full_name>>
    /\ UNCHANGED <<schemaVars, benchVars, loadVars>>

RECURSIVE FlatRows(_, _)
\* the rows of the files in order, each file's rows made by rowsOf
FlatRows(files, rowsOf) ==
    IF files = <<>> THEN <<>>
    ELSE rowsOf[Head(files).id] \o FlatRows(Tail(files), rowsOf)

\* what the engine may do when the files of one read_csv glob differ in their
\* header (no union_by_name): reject the read, or read all files by position
\* under the first file's columns, or drop the rows that do not fit
\* (ignore_errors=true); which one depends on the engine's version
MixedReadOutcomes == {"schema_mismatch", "by_position", "rows_dropped"}

----------------------------------------------------------------------------
(* SQLRegexLoader.load_tsv_files (approach1_sql.py) *)

\* the entity columns of the SELECT list, in the order of
\* schema.get_all_entity_short_names()
EntityColumns(s2f, use_full_names) ==
    [i \in DOMAIN s2f |-> get_entity_column_name(s2f, s2f[i][1], use_full_names)]

\* the query of approach1_sql.py:53-66 on the files the engine's glob lists
sql_load_tsv_files(files, pattern, s2f, use_full_names, mixed) ==
    LET globbed == EngineGlob(files, pattern) IN
    IF globbed = <<>> THEN [exc |-> "duckdb.Error", rel |-> NoRel]
    ELSE
    LET header == globbed[1].header
        same == \A i \in DOMAIN globbed : globbed[i].header = header
        read == IF same \/ mixed = "by_position" THEN globbed
                ELSE SelectSeq(globbed, LAMBDA f : f.header = header)
        rowsOf == [id \in FileIds |->
                     LET f == FileOf(id) IN
                     [k \in DOMAIN f.rows |->
                        [src |-> id,
                         cells |-> f.rows[k] \o <<f.path, f.path>>
                                   \o [i \in DOMAIN s2f |-> PathExtracts[id][s2f[i][1]]]]]]
    IN  IF ~same /\ mixed = "schema_mismatch"
        THEN [exc |-> "duckdb.Error", rel |-> NoRel]
        ELSE [exc |-> "none",
              rel |-> [cols |-> header \o <<w_filename, w_filename_1>>
                                \o EntityColumns(s2f, use_full_names),
                       rows |-> FlatRows(read, rowsOf)]]

----------------------------------------------------------------------------
(* PythonPreprocessLoader.load_tsv_files (approach2_python.py) *)

\* {self.get_entity_full_name(k): v for k, v in entities.items()}
FullNamed(s2f, ents) ==
    [i \in DOMAIN ents |-> <<get_entity_full_name(s2f, ents[i][1]), ents[i][2]>>]

\* the entity dict of one file: approach2_python.py:55-61
FileEntities(f, s2f, use_full_names) ==
    LET ents == PathEntities[f.id][s2f] IN
    IF use_full_names THEN FullNamed(s2f, ents) ELSE ents

\* the SELECT of one file (approach2_python.py:86-93): filepath, filename,
\* the file's entities as literals, then the file's own columns
FilePart(f, s2f, use_full_names) ==
    LET ents == FileEntities(f, s2f, use_full_names) IN
    [cols |-> <<w_filepath, w_filename>> \o [i \in DOMAIN ents |-> ents[i][1]] \o f.header,
     rows |-> [k \in DOMAIN f.rows |->
                 [src |-> f.id,
                  cells |-> <<f.path, PathNames[f.id]>>
                            \o [i \in DOMAIN ents |-> ents[i][2]] \o f.rows[k]]]]

RECURSIVE UnionAllRows(_)
UnionAllRows(parts) ==
    IF parts = <<>> THEN <<>> ELSE Head(parts).rows \o UnionAllRows(Tail(parts))

\* p1 UNION ALL p2 UNION ALL ...: the parts must have the same number of
\* columns; columns are matched by position and named as in the first part
UnionAll(parts) ==
    IF \E i \in DOMAIN parts : Len(parts[i].cols) # Len(parts[1].cols)
    THEN [exc |-> "duckdb.Error", rel |-> NoRel]
    ELSE [exc |-> "none", rel |-> [cols |-> parts[1].cols, rows |-> UnionAllRows(parts)]]

py_load_tsv_files_no_placeholder(files, pattern, order, s2f, use_full_names) ==
    LET tsv_files == SeqOfSet(Matched(files, pattern), order) IN
    IF tsv_files = <<>> THEN [exc |-> "duckdb.Error", rel |-> NoRel]
    ELSE UnionAll([i \in DOMAIN tsv_files |-> FilePart(tsv_files[i], s2f, use_full_names)])
\* PythonPreprocessLoader.load_tsv_files on the files in the order Path.glob
\* lists them
py_load_tsv_files(files, pattern, order, s2f, use_full_names) ==
    LET tsv_files == SeqOfSet(Matched(files, pattern), order) IN
    IF tsv_files = <<>>
    THEN [exc |-> "none", rel |-> [cols |-> <<w_filepath>>, rows |-> <<>>]]
    ELSE UnionAll([i \in DOMAIN tsv_files |-> FilePart(tsv_files[i], s2f, use_full_names)])

----------------------------------------------------------------------------
(* TableFunctionLoader.load_tsv_files (approach3_table_function.py) *)

\* con.create_function(name, python_function) makes a scalar function; the
\* engine may reject the function for its return annotation Iterator[dict]
CreateFunctionOutcomes == {"scalar", "rejected"}

\* the functions of a session by name: a function is scalar or a table
\* function; the scanners are closures of _register_functions and keep the
\* use_full_names of the call that defined them
Function(name, kind, use_full_names) ==
    [name |-> name, kind |-> kind, use_full_names |-> use_full_names]
FunctionNames(functions) == {f.name : f \in functions}

\* what the engine does on the two create_function calls of one registration
RegistrationOutcomes == [tsv : CreateFunctionOutcomes, json : CreateFunctionOutcomes]

\* con.create_function(name, f): a connection takes a name once
create_function(functions, name, outcome, use_full_names) ==
    IF outcome = "rejected" \/ name \in FunctionNames(functions)
    THEN [exc |-> "duckdb.Error", functions |-> functions]
    ELSE [exc |-> "none",
          functions |-> functions \cup {Function(name, "scalar", use_full_names)}]

\* TableFunctionLoader._register_functions: the exception it raises, the
\* functions of the session and self._functions_registered afterwards
register_functions(functions, registered, outcome, use_full_names) ==
    IF registered THEN [exc |-> "none", functions |-> functions, registered |-> TRUE]
    ELSE LET t == create_function(functions, "bids_scan_tsv", outcome.tsv, use_full_names) IN
         IF t.exc # "none"
         THEN [exc |-> t.exc, functions |-> t.functions, registered |-> FALSE]
         ELSE LET j == create_function(t.functions, "bids_scan_json", outcome.json,
                                       use_full_names) IN
              [exc |-> j.exc, functions |-> j.functions, registered |-> j.exc = "none"]

\* one row dict of scan_tsv_files: the file's columns, updated with filepath,
\* filename and the file's entities
ScanRow(f, k, s2f, use_full_names) ==
    LET row_dict == [i \in DOMAIN f.header |-> <<f.header[i], f.rows[k][i]>>]
        added == << <<w_filepath, f.path>>, <<w_filename, PathNames[f.id]>> >>
                 \o FileEntities(f, s2f, use_full_names)
    IN  [src |-> f.id, dict |-> DictUpdate(row_dict, added)]

RECURSIVE ScanRows(_, _, _, _)
ScanRows(tsv_files, readable, s2f, use_full_names) ==
    IF tsv_files = <<>> THEN <<>>
    ELSE LET f == Head(tsv_files)
             rest == ScanRows(Tail(tsv_files), readable, s2f, use_full_names)
         IN  IF f.id \in readable
             THEN [k \in DOMAIN f.rows |-> ScanRow(f, k, s2f, use_full_names)] \o rest
             ELSE rest

\* scan_tsv_files with its loop left at the first file whose read raises
RECURSIVE ScanRowsUntilFailure(_, _, _, _)
ScanRowsUntilFailure(tsv_files, readable, s2f, use_full_names) ==
    IF tsv_files = <<>> THEN <<>>
    ELSE LET f == Head(tsv_files) IN
         IF f.id \in readable
         THEN [k \in DOMAIN f.rows |-> ScanRow(f, k, s2f, use_full_names)]
              \o ScanRowsUntilFailure(Tail(tsv_files), readable, s2f, use_full_names)
         ELSE <<>>

scan_tsv_files_until_failure(files, pattern, order, readable, s2f, use_full_names) ==
    ScanRowsUntilFailure(SeqOfSet(Matched(files, pattern), order), readable, s2f,
                         use_full_names)

\* the row dicts scan_tsv_files yields, the files listed in the order Path.glob
\* gives; a file whose read raises (not in readable) is skipped with a warning
scan_tsv_files(files, pattern, order, readable, s2f, use_full_names) ==
    ScanRows(SeqOfSet(Matched(files, pattern), order), readable, s2f, use_full_names)

\* a load of TableFunctionLoader: CREATE OR REPLACE VIEW ... AS SELECT * FROM
\* scanner(pattern) binds only to a table function of that name, and
\* create_function registers scalar functions
tf_load(functions, registered, outcome, scanner, use_full_names) ==
    LET r == register_functions(functions, registered, outcome, use_full_names) IN
    IF r.exc # "none" THEN r @@ [view |-> FALSE]
    ELSE IF \E f \in r.functions : f.name = scanner /\ f.kind = "table"
    THEN r @@ [view |-> TRUE]
    ELSE [r EXCEPT !.exc = "duckdb.Error"] @@ [view |-> FALSE]

\* TableFunctionLoader.load_tsv_files
tf_load_tsv_files(functions, registered, outcome, use_full_names) ==
    tf_load(functions, registered, outcome, "bids_scan_tsv", use_full_names)

\* TableFunctionLoader.load_json_files
tf_load_json_files(functions, registered, outcome, use_full_names) ==
    tf_load(functions, registered, outcome, "bids_scan_json", use_full_names)

----------------------------------------------------------------------------
(* Loaders, their engine sessions and the calls made on them *)

\* the loader classes; one loader of each class, and a second TableFunctionLoader
Variants == {"sql", "python", "table_function"}
Loaders == Variants \cup {"table_function_2"}
ClassOf(l) == IF l = "table_function_2" THEN "table_function" ELSE l
TableFunctionLoaders == {l \in Loaders : ClassOf(l) = "table_function"}

\* a session is named after the loader whose constructor opened it with
\* duckdb.connect(); a loader made with connection=other.con uses the other's
Sessions == Loaders

\* the relation names of the loaders
MaterializedName(view_name) ==
    IF view_name = "bids_tsv_data" THEN "bids_tsv_data_materialized"
    ELSE "bids_json_metadata_materialized"
ViewNames == {"bids_tsv_data", "bids_json_metadata"}
TableNames == ViewNames \cup {MaterializedName(v) : v \in ViewNames}
NoObject == [kind |-> "none", rel |-> NoRel, scanner |-> "none", pattern |-> "none"]

Patterns == {"**/*.tsv", "**/*.json"}

\* CREATE OR REPLACE TABLE name AS rel in a session's catalog
CreateOrReplaceTable(catalog, name, rel) ==
    IF catalog[name].kind = "view"
    THEN [exc |-> "duckdb.Error", catalog |-> catalog]
    ELSE [exc |-> "none",
          catalog |-> [catalog EXCEPT ![name] = [NoObject EXCEPT !.kind = "table", !.rel = rel]]]

\* CREATE OR REPLACE VIEW name AS SELECT * FROM scanner(pattern): the view
\* is evaluated by calling the scanner whenever it is read
CreateOrReplaceView(catalog, name, scanner, pattern) ==
    IF catalog[name].kind = "table"
    THEN [exc |-> "duckdb.Error", catalog |-> catalog]
    ELSE [exc |-> "none",
          catalog |-> [catalog EXCEPT ![name] =
                          [NoObject EXCEPT !.kind = "view", !.scanner = scanner,
                                           !.pattern = pattern]]]

\* the relation a list of row dicts of one shape makes
RowsRelation(dicts) ==
    IF dicts = <<>> THEN NoRel
    ELSE [cols |-> [i \in DOMAIN dicts[1].dict |-> dicts[1].dict[i][1]],
          rows |-> [k \in DOMAIN dicts |->
                      [src |-> dicts[k].src,
                       cells |-> [i \in DOMAIN dicts[k].dict |-> dicts[k].dict[i][2]]]]]

\* SELECT * FROM name in a session: a table gives its rows, a view over the
\* tabular scanner gives the rows the session's scanner yields now, under the
\* use_full_names the scanner was defined with
SelectAll(catalog, functions, name, files, order, readable, s2f) ==
    IF catalog[name].kind = "table" THEN [exc |-> "none", rel |-> catalog[name].rel]
    ELSE IF /\ catalog[name].kind = "view"
            /\ catalog[name].scanner = "bids_scan_tsv"
            /\ \E f \in functions : f.name = "bids_scan_tsv" /\ f.kind = "table"
    THEN LET g == CHOOSE f \in functions : f.name = "bids_scan_tsv" IN
         [exc |-> "none",
          rel |-> RowsRelation(scan_tsv_files(files, catalog[name].pattern, order,
                                              readable, s2f, g.use_full_names))]
    ELSE [exc |-> "duckdb.Error", rel |-> NoRel]

\* TableFunctionLoader.materialize_view
materialize_view(catalog, functions, view_name, files, order, readable, s2f) ==
    LET q == SelectAll(catalog, functions, view_name, files, order, readable, s2f) IN
    IF q.exc # "none" THEN [exc |-> q.exc, catalog |-> catalog]
    ELSE CreateOrReplaceTable(catalog, MaterializedName(view_name), q.rel)

BIDSLoader_init_unchecked(root_exists) == "none"
\* BIDSLoader.__init__, once the schema has given its mappings: the exception
\* it raises
BIDSLoader_init(root_exists) == IF root_exists THEN "none" ELSE "FileNotFoundError"

NoReturn ==
    [called |-> FALSE, op |-> "none", exc |-> "none", val |-> "none",
     pattern |-> "none", seen |-> {}, tsv_calls |-> 0, use_full_names |-> TRUE]

EmptyCatalogs == [c \in Sessions |-> [n \in TableNames |-> NoObject]]

\* the scanner was not consumed yet
NoScan == [called |-> FALSE, pattern |-> "none", order |-> [id \in FileIds |-> 0],
           readable |-> {}, use_full_names |-> TRUE, rows |-> <<>>, exc |-> "none"]

LoadIdle ==
    /\ d_root = TRUE
    /\ d_files = {}
    /\ e_catalog = EmptyCatalogs
    /\ e_functions = [c \in Sessions |-> {}]
    /\ l_made = {}
    /\ l_con = [l \in Loaders |-> l]
    /\ l_patterns = {}
    /\ l_flags = {}
    /\ l_registered = [l \in TableFunctionLoaders |-> FALSE]
    /\ l_ret = [l \in Loaders |-> NoReturn]
    /\ l_last = "none"
    /\ l_loads = 0
    /\ l_scan = NoScan

\* no call made yet, on a loader that holds one of the schema's mappings
LoadersFresh ==
    /\ e_catalog = EmptyCatalogs
    /\ e_functions = [c \in Sessions |-> {}]
    /\ l_registered = [l \in TableFunctionLoaders |-> FALSE]
    /\ l_ret = [l \in Loaders |-> NoReturn]
    /\ l_last = "none"
    /\ l_loads = 0
    /\ l_scan = NoScan
    /\ filepath = <<>>
    /\ pairs = [wellFormed |-> FALSE, tokens |-> <<>>]
    /\ entities = <<>>
    /\ parsePc = "idle"
    /\ NamesIdle

\* three loaders constructed over one root, each with duckdb.connect()
LoadInit ==
    /\ d_root = TRUE
    /\ d_files \in SUBSET PlainFiles
    /\ l_made = Variants
    /\ l_con = [l \in Loaders |-> l]
    /\ l_patterns = {"**/*.tsv"}
    /\ l_flags = {TRUE}
    /\ entity_short_to_full \in LoaderMappings
    /\ LoadersFresh

\* the files of the datasets on which loaders share sessions: two events
\* files with the same columns and entities
SessionFiles == {"sub-01_task", "sub-02_task"}

\* each loader with its own connection, or all four on the connection the
\* sql loader opened
SessionSharings == {[l \in Loaders |-> l], [l \in Loaders |-> "sql"]}

\* four loaders constructed over one root, with own or shared connections
SessionInit ==
    /\ d_root = TRUE
    /\ d_files \in SUBSET SessionFiles
    /\ l_made = Loaders
    /\ l_con \in SessionSharings
    /\ l_patterns = Patterns
    /\ l_flags = {TRUE}
    /\ entity_short_to_full \in LoaderMappings
    /\ LoadersFresh

\* two TableFunctionLoaders constructed over one root, with own connections
\* or on one connection
ViewInit ==
    /\ d_root = TRUE
    /\ d_files \in SUBSET SessionFiles
    /\ l_made = TableFunctionLoaders
    /\ l_con \in {[l \in Loaders |-> l], [l \in Loaders |-> "table_function"]}
    /\ l_patterns = {"**/*.tsv"}
    /\ l_flags = BOOLEAN
    /\ entity_short_to_full \in LoaderMappings
    /\ LoadersFresh

\* one TableFunctionLoader over files of which one has columns named like
\* the columns the scanner adds; the scanner was defined under either value
\* of use_full_names
MergeInit ==
    /\ d_root = TRUE
    /\ d_files \in SUBSET MergeFiles
    /\ l_made = {"table_function"}
    /\ l_con = [l \in Loaders |-> l]
    /\ l_patterns = {"**/*.tsv"}
    /\ l_flags = BOOLEAN
    /\ entity_short_to_full \in LoaderMappings
    /\ LoadersFresh

\* one TableFunctionLoader constructed over one root whose files change
SnapshotInit ==
    /\ d_root = TRUE
    /\ d_files \in SUBSET SessionFiles
    /\ l_made = {"table_function"}
    /\ l_con = [l \in Loaders |-> l]
    /\ l_patterns = {"**/*.tsv"}
    /\ l_flags = {TRUE}
    /\ entity_short_to_full \in LoaderMappings
    /\ LoadersFresh

\* no loader constructed yet; the root may not exist, and then holds no file
ConstructInit ==
    /\ d_root \in BOOLEAN
    /\ d_files \in SUBSET SessionFiles
    /\ ~d_root => d_files = {}
    /\ l_made = {}
    /\ l_con = [l \in Loaders |-> l]
    /\ l_patterns = {"**/*.tsv"}
    /\ l_flags = {TRUE}
    /\ entity_short_to_full \in LoaderMappings
    /\ LoadersFresh

\* the loader l returns from the call op(pattern) with exception exc or value
\* val, having enumerated the files seen; use_full_names is the argument of
\* that name of a load, and its default otherwise
LoaderReturn(l, op, pattern, exc, val, seen, use_full_names) ==
    /\ l_ret' = [l_ret EXCEPT ![l] =
                    [called |-> TRUE, op |-> op, exc |-> exc,
                     val |-> IF exc = "none" THEN val ELSE "none",
                     pattern |-> pattern, seen |-> seen,
                     use_full_names |-> use_full_names,
                     tsv_calls |-> IF op = "load_tsv_files" THEN @.tsv_calls + 1
                                   ELSE @.tsv_calls]]
    /\ l_last' = l
    /\ l_loads' = l_loads + 1
    /\ UNCHANGED <<d_root, d_files, l_patterns, l_flags, l_scan>>
    /\ UNCHANGED <<parseVars, schemaVars, benchVars>>

\* SQLRegexLoader.load_tsv_files(pattern)
LoadTsvSql ==
    /\ l_loads < MaxLoads
    /\ \E l \in l_made, pattern \in l_patterns, mixed \in MixedReadOutcomes :
          /\ ClassOf(l) = "sql"
          /\ LET q == sql_load_tsv_files(d_files, pattern, entity_short_to_full, TRUE, mixed)
                 c == CreateOrReplaceTable(e_catalog[l_con[l]], "bids_tsv_data", q.rel)
                 exc == IF q.exc # "none" THEN q.exc ELSE c.exc
             IN  /\ LoaderReturn(l, "load_tsv_files", pattern, exc, "bids_tsv_data",
                                 Matched(d_files, pattern), TRUE)
                 /\ e_catalog' = [e_catalog EXCEPT ![l_con[l]] =
                                     IF q.exc = "none" THEN c.catalog ELSE @]
    /\ UNCHANGED <<e_functions, l_registered, l_made, l_con>>

\* PythonPreprocessLoader.load_tsv_files(pattern)
LoadTsvPython ==
    /\ l_loads < MaxLoads
    /\ \E l \in l_made, pattern \in l_patterns :
       \E order \in GlobOrders(d_files, pattern) :
          /\ ClassOf(l) = "python"
          /\ LET q == py_load_tsv_files(d_files, pattern, order, entity_short_to_full, TRUE)
                 c == CreateOrReplaceTable(e_catalog[l_con[l]], "bids_tsv_data", q.rel)
                 exc == IF q.exc # "none" THEN q.exc ELSE c.exc
             IN  /\ LoaderReturn(l, "load_tsv_files", pattern, exc, "bids_tsv_data",
                                 Matched(d_files, pattern), TRUE)
                 /\ e_catalog' = [e_catalog EXCEPT ![l_con[l]] =
                                     IF q.exc = "none" THEN c.catalog ELSE @]
    /\ UNCHANGED <<e_functions, l_registered, l_made, l_con>>

\* a load of the TableFunctionLoader l: op is the method, scanner the function
\* its view selects from, name the view
LoadTableFunction(l, op, scanner, name, pattern, outcome, use_full_names) ==
    LET r == tf_load(e_functions[l_con[l]], l_registered[l], outcome, scanner,
                     use_full_names)
        c == CreateOrReplaceView(e_catalog[l_con[l]], name, scanner, pattern)
        exc == IF r.view THEN c.exc ELSE r.exc
    IN  /\ LoaderReturn(l, op, pattern, exc, name, {}, use_full_names)
        /\ e_catalog' = [e_catalog EXCEPT ![l_con[l]] = IF r.view THEN c.catalog ELSE @]
        /\ e_functions' = [e_functions EXCEPT ![l_con[l]] = r.functions]
        /\ l_registered' = [l_registered EXCEPT ![l] = r.registered]

\* TableFunctionLoader.load_tsv_files(pattern, use_full_names)
LoadTsvTableFunction ==
    /\ l_loads < MaxLoads
    /\ \E l \in l_made, pattern \in l_patterns, outcome \in RegistrationOutcomes,
          use_full_names \in l_flags :
          /\ ClassOf(l) = "table_function"
          /\ LoadTableFunction(l, "load_tsv_files", "bids_scan_tsv", "bids_tsv_data",
                               pattern, outcome, use_full_names)
    /\ UNCHANGED <<l_made, l_con>>

\* TableFunctionLoader.load_json_files(pattern, use_full_names)
LoadJsonTableFunction ==
    /\ l_loads < MaxLoads
    /\ \E l \in l_made, pattern \in l_patterns, outcome \in RegistrationOutcomes,
          use_full_names \in l_flags :
          /\ ClassOf(l) = "table_function"
          /\ LoadTableFunction(l, "load_json_files", "bids_scan_json", "bids_json_metadata",
                               pattern, outcome, use_full_names)
    /\ UNCHANGED <<l_made, l_con>>

\* TableFunctionLoader.materialize_view(view_name)
MaterializeView ==
    /\ l_loads < MaxLoads
    /\ \E l \in l_made, view_name \in ViewNames :
       \E order \in GlobOrders(d_files, e_catalog[l_con[l]][view_name].pattern),
          readable \in SUBSET d_files :
          /\ ClassOf(l) = "table_function"
          /\ LET m == materialize_view(e_catalog[l_con[l]], e_functions[l_con[l]],
                                       view_name, d_files, order, readable,
                                       entity_short_to_full)
             IN  /\ LoaderReturn(l, "materialize_view", view_name, m.exc,
                                 MaterializedName(view_name), {}, TRUE)
                 /\ e_catalog' = [e_catalog EXCEPT ![l_con[l]] = m.catalog]
    /\ UNCHANGED <<e_functions, l_registered, l_made, l_con>>

\* files are added to the dataset or removed from it, outside the program
ChangeFiles ==
    /\ \E files \in SUBSET SessionFiles :
          /\ files # d_files
          /\ d_files' = files
    /\ UNCHANGED <<d_root, e_catalog, e_functions, l_made, l_con, l_patterns, l_flags,
                   l_registered, l_ret, l_last, l_loads, l_scan>>
    /\ UNCHANGED <<parseVars, schemaVars, benchVars>>

\* the generator scan_tsv_files(pattern) of a TableFunctionLoader consumed to
\* its end; the reads of the files outside readable raise. Every exception of
\* a read is caught inside the loop, so the generator ends by returning
ScanTsvFiles ==
    /\ \E l \in l_made, pattern \in l_patterns, use_full_names \in l_flags :
       \E order \in GlobOrders(d_files, pattern),
          readable \in SUBSET Matched(d_files, pattern) :
          /\ ClassOf(l) = "table_function"
          /\ l_scan' = [called |-> TRUE, pattern |-> pattern, order |-> order,
                        readable |-> readable, use_full_names |-> use_full_names,
                        rows |-> scan_tsv_files(d_files, pattern, order, readable,
                                                entity_short_to_full, use_full_names),
                        exc |-> "none"]
    /\ UNCHANGED <<d_root, d_files, e_catalog, e_functions, l_made, l_con, l_patterns,
                   l_flags, l_registered, l_ret, l_last, l_loads>>
    /\ UNCHANGED <<parseVars, schemaVars, benchVars>>

\* SQLRegexLoader(root), PythonPreprocessLoader(root) or TableFunctionLoader(root),
\* with a new connection or with the connection of a loader made before
Construct ==
    /\ l_loads < MaxLoads
    /\ \E l \in Loaders \ l_made :
       \E con \in {l} \cup {l_con[k] : k \in l_made} :
          LET exc == BIDSLoader_init(d_root) IN
          /\ LoaderReturn(l, "__init__", "none", exc, "none", {}, TRUE)
          /\ l_made' = IF exc = "none" THEN l_made \cup {l} ELSE l_made
          /\ l_con' = IF exc = "none" THEN [l_con EXCEPT ![l] = con] ELSE l_con
          /\ l_registered' = IF l \in TableFunctionLoaders
                             THEN [l_registered EXCEPT ![l] = FALSE]
                             ELSE l_registered
    /\ UNCHANGED <<e_catalog, e_functions>>

----------------------------------------------------------------------------
(* BenchmarkSuite (benchmark.py) *)

KnownApproaches == {"sql", "python", "table_function"}
DefaultApproaches == <<"sql", "python", "table_function">>
\* BenchmarkSuite._get_default_queries, by name
DefaultQueries == <<"count_all", "distinct_subjects", "group_by_subject", "filter_by_task">>

NoResult ==
    [approach_name |-> "", load_time |-> 0, query_times |-> <<>>, row_counts |-> <<>>,
     memory_usage |-> 0, errors |-> <<>>]

\* BenchmarkResult(**args), the dataclass constructor: approach_name and
\* load_time have no default, so a call without one of them raises TypeError
BenchmarkResult(args) ==
    IF ~({"approach_name", "load_time"} \subseteq DOMAIN args)
    THEN [exc |-> "TypeError", val |-> NoResult]
    ELSE [exc |-> "none",
          val |-> [approach_name |-> args.approach_name,
                   load_time |-> args.load_time,
                   query_times |-> <<>>, row_counts |-> <<>>, memory_usage |-> 0,
                   errors |-> IF "errors" \in DOMAIN args THEN args.errors ELSE <<>>]]

\* BenchmarkSuite._create_loader: the exception it raises, or "none"
create_loader(approach, world) ==
    IF approach \notin KnownApproaches THEN "ValueError"
    ELSE IF ~world.rootExists THEN "FileNotFoundError"
    ELSE "none"

RECURSIVE RunQueries(_, _, _, _)
\* the query loop of _benchmark_approach (benchmark.py:159-169)
RunQueries(queries, world, env, result) ==
    IF queries = <<>> THEN result
    ELSE LET q == Head(queries) IN
         RunQueries(Tail(queries), world, env,
                    IF q \in world.queryFails
                    THEN [result EXCEPT !.errors = Append(@, <<"Query error", q>>)]
                    ELSE [result EXCEPT !.query_times = DictSet(@, q, env.query)])

\* what one call of _benchmark_approach did besides returning
Did(opened, closed, loadCalled, measured, queriesRun) ==
    [opened |-> opened, closed |-> closed, loadCalled |-> loadCalled,
     measured |-> measured, queriesRun |-> queriesRun]

\* BenchmarkSuite._benchmark_approach from con = duckdb.connect() on
\* (benchmark.py:129-181), result being the BenchmarkResult made before it
benchmark_approach_connected(result, approach, queries, world, env) ==
    LET cl == create_loader(approach, world) IN
    IF cl # "none"
    THEN [exc |-> cl, result |-> NoResult, did |-> Did(TRUE, FALSE, FALSE, 0, <<>>)]
    ELSE IF approach \in world.loadFails
    THEN [exc |-> "none",
          result |-> [result EXCEPT !.errors = Append(@, <<"Load error", approach>>)],
          did |-> Did(TRUE, FALSE, TRUE, 0, <<>>)]
    ELSE
    LET r1 == [result EXCEPT !.load_time = env.load]
        r2 == IF env.statsOk
              THEN [r1 EXCEPT !.row_counts = << <<"bids_tsv_data", world.rows>> >>]
              ELSE r1
        r3 == RunQueries(queries, world, env, r2)
        r4 == IF env.memOk THEN [r3 EXCEPT !.memory_usage = world.rows] ELSE r3
    IN  [exc |-> "none", result |-> r4, did |-> Did(TRUE, TRUE, TRUE, env.load, queries)]

\* BenchmarkSuite._benchmark_approach: the exception it raises or the result it
\* returns, and what it did
benchmark_approach(approach, queries, world, env) ==
    LET r0 == BenchmarkResult([approach_name |-> approach]) IN
    IF r0.exc # "none"
    THEN [exc |-> r0.exc, result |-> NoResult, did |-> Did(FALSE, FALSE, FALSE, 0, <<>>)]
    ELSE benchmark_approach_connected(r0.val, approach, queries, world, env)

RECURSIVE InsertByLoadTime(_, _)
\* x put into the list xs, sorted by load_time, after the elements whose
\* load_time is not larger: one step of a stable sort
InsertByLoadTime(xs, x) ==
    IF xs = <<>> THEN <<x>>
    ELSE IF x.load_time < Head(xs).load_time THEN <<x>> \o xs
    ELSE <<Head(xs)>> \o InsertByLoadTime(Tail(xs), x)

RECURSIVE SortedByLoadTime(_)
\* sorted(self.results, key=lambda r: r.load_time)
SortedByLoadTime(xs) ==
    IF xs = <<>> THEN <<>>
    ELSE InsertByLoadTime(SortedByLoadTime(SubSeq(xs, 1, Len(xs) - 1)), xs[Len(xs)])

\* min(S) of a non-empty set of numbers
Min(S) == CHOOSE x \in S : \A y \in S : x <= y

RECURSIVE TimesOf(_, _, _)
\* {r.approach_name: r.query_times.get(query_name, 0) for r in self.results}
TimesOf(results, q, acc) ==
    IF results = <<>> THEN acc
    ELSE LET r == Head(results) IN
         TimesOf(Tail(results), q,
                 DictSet(acc, r.approach_name,
                         IF DictHas(r.query_times, q) THEN DictGet(r.query_times, q) ELSE 0))

\* BenchmarkSuite._print_comparison_table: the exception it raises and the
\* load-time rows <<approach, time, minimum>> it printed
print_comparison_table(results) ==
    LET positive == {results[i].load_time : i \in {j \in DOMAIN results : results[j].load_time > 0}}
    IN
    IF positive = {} THEN [exc |-> "ValueError", rows |-> <<>>]
    ELSE
    LET min_load_time == Min(positive)
        sorted == SortedByLoadTime(results)
        shown == SelectSeq(sorted, LAMBDA r : r.load_time > 0)
        rows == [i \in DOMAIN shown |-> <<shown[i].approach_name, shown[i].load_time, min_load_time>>]
        query_names == UNION {DictKeys(results[i].query_times) : i \in DOMAIN results}
        badQuery(q) ==
            LET times == TimesOf(results, q, <<>>)
            IN  {times[i][2] : i \in {j \in DOMAIN times : times[j][2] > 0}} = {}
    IN  IF \E q \in query_names : badQuery(q)
        THEN [exc |-> "ValueError", rows |-> rows]
        ELSE [exc |-> "none", rows |-> rows]

\* BenchmarkSuite.print_summary
print_summary(results) ==
    IF Len(results) > 1 THEN print_comparison_table(results)
    ELSE [exc |-> "none", rows |-> <<>>]

----------------------------------------------------------------------------
(* Calls on one BenchmarkSuite *)

\* the dataset and engine a suite runs against: whether the root exists, the
\* approaches whose load_tsv_files raises, the queries that raise, the rows loaded
BenchWorlds ==
    [rootExists : BOOLEAN,
     loadFails : SUBSET KnownApproaches,
     queryFails : SUBSET {"distinct_subjects", "q_custom"},
     rows : {5}]

\* what the clock and the engine give during one _benchmark_approach call
BenchEnvs ==
    [load : 1..MaxDuration, query : 1..MaxDuration, statsOk : BOOLEAN, memOk : BOOLEAN]

ApproachNames == KnownApproaches \cup {"bogus"}
ApproachLists ==
    {DefaultApproaches} \cup UNION { [1..n -> ApproachNames] : n \in 0..MaxApproaches }
QueryLists == {DefaultQueries, <<"q_custom", "count_all">>, <<>>}

BenchIdle ==
    /\ b_world = [rootExists |-> TRUE, loadFails |-> {}, queryFails |-> {}, rows |-> 5]
    /\ b_approaches = <<>>
    /\ b_queries = <<>>
    /\ b_results = <<>>
    /\ b_pc = "idle"
    /\ b_i = 0
    /\ b_trace = <<>>
    /\ b_raised = "none"
    /\ b_output = <<>>
    /\ b_runs = 0

\* BenchmarkSuite.__init__
BenchInit ==
    /\ b_world \in BenchWorlds
    /\ b_approaches = <<>>
    /\ b_queries = <<>>
    /\ b_results = <<>>
    /\ b_pc = "idle"
    /\ b_i = 0
    /\ b_trace = <<>>
    /\ b_raised = "none"
    /\ b_output = <<>>
    /\ b_runs = 0

\* run_all called without its `self.results = []`
RunAllStartKeepingResults ==
    /\ b_pc \in {"idle", "returned", "printed"}
    /\ b_raised = "none"
    /\ b_runs < MaxRuns
    /\ \E as \in ApproachLists, qs \in QueryLists :
          /\ b_approaches' = as
          /\ b_queries' = qs
    /\ b_i' = 0
    /\ b_trace' = <<>>
    /\ b_pc' = "loop"
    /\ b_runs' = b_runs + 1
    /\ UNCHANGED <<b_world, b_raised, b_output, b_results>>
    /\ UNCHANGED <<parseVars, schemaVars, loadVars>>

\* run_all(approaches, queries) is called: benchmark.py:86-92
RunAllStart ==
    /\ b_pc \in {"idle", "returned", "printed"}
    /\ b_raised = "none"
    /\ b_runs < MaxRuns
    /\ \E as \in ApproachLists, qs \in QueryLists :
          /\ b_approaches' = as
          /\ b_queries' = qs
    /\ b_results' = <<>>
    /\ b_i' = 0
    /\ b_trace' = <<>>
    /\ b_pc' = "loop"
    /\ b_runs' = b_runs + 1
    /\ UNCHANGED <<b_world, b_raised, b_output>>
    /\ UNCHANGED <<parseVars, schemaVars, loadVars>>

\* one iteration of the loop of run_all: benchmark.py:94-110
RunAllStep ==
    /\ b_pc = "loop"
    /\ b_i < Len(b_approaches)
    /\ \E env \in BenchEnvs :
          LET approach == b_approaches[b_i + 1]
              b == benchmark_approach(approach, b_queries, b_world, env)
          IN  /\ b_trace' = Append(b_trace, b.did)
              /\ IF b.exc = "none"
                 THEN /\ b_results' = Append(b_results, b.result)
                      /\ b_i' = b_i + 1
                      /\ UNCHANGED <<b_pc, b_raised>>
                 ELSE IF b.exc \in CaughtByExceptException
                 THEN /\ b_results' =
                            Append(b_results,
                                   BenchmarkResult([approach_name |-> approach,
                                                    load_time |-> 0,
                                                    errors |-> << <<"exception", b.exc>> >>]).val)
                      /\ b_i' = b_i + 1
                      /\ UNCHANGED <<b_pc, b_raised>>
                 ELSE /\ b_raised' = b.exc
                      /\ b_pc' = "returned"
                      /\ UNCHANGED <<b_results, b_i>>
    /\ UNCHANGED <<b_world, b_approaches, b_queries, b_output, b_runs>>
    /\ UNCHANGED <<parseVars, schemaVars, loadVars>>

\* run_all returns self.results: benchmark.py:112
RunAllReturn ==
    /\ b_pc = "loop"
    /\ b_i = Len(b_approaches)
    /\ b_pc' = "returned"
    /\ UNCHANGED <<b_world, b_approaches, b_queries, b_results, b_i, b_trace,
                   b_raised, b_output, b_runs>>
    /\ UNCHANGED <<parseVars, schemaVars, loadVars>>

\* suite.print_summary() after run_all returned, as run_benchmark does
PrintSummary ==
    /\ b_pc = "returned"
    /\ b_raised = "none"
    /\ LET p == print_summary(b_results) IN
       /\ b_raised' = p.exc
       /\ b_output' = p.rows
    /\ b_pc' = "printed"
    /\ UNCHANGED <<b_world, b_approaches, b_queries, b_results, b_i, b_trace, b_runs>>
    /\ UNCHANGED <<parseVars, schemaVars, loadVars>>

----------------------------------------------------------------------------
(* Specifications *)

\* parse_bids_entities on one input
ParseSpecInit == ParseInit /\ SchemaInit /\ BenchIdle /\ LoadIdle
ParseNext == Parse
SpecParse == ParseSpecInit /\ [][ParseNext]_vars

\* the tabular scanner of one TableFunctionLoader consumed as a generator
ScanSpecInit == LoadInit /\ SchemaInit /\ BenchIdle
ScanNext == ScanTsvFiles
SpecScan == ScanSpecInit /\ [][ScanNext]_vars

\* the two ways of extracting the entities of one source path
ExtractSpecInit == ExtractInit /\ SchemaInit /\ BenchIdle /\ LoadIdle
ExtractNext == Extract
SpecExtract == ExtractSpecInit /\ [][ExtractNext]_vars

\* one TableFunctionLoader on a dataset whose files change between its calls
SnapshotSpecInit == SnapshotInit /\ SchemaInit /\ BenchIdle
SnapshotNext ==
    \/ LoadTsvTableFunction
    \/ MaterializeView
    \/ ChangeFiles
SpecSnapshot == SnapshotSpecInit /\ [][SnapshotNext]_vars

\* the tabular scanner on files with columns named like the added ones
MergeSpecInit == MergeInit /\ SchemaInit /\ BenchIdle
MergeNext == ScanTsvFiles
SpecMerge == MergeSpecInit /\ [][MergeNext]_vars

\* the name methods of one loader
NamesSpecInit == NamesInit /\ SchemaInit /\ BenchIdle /\ LoadIdle
NamesNext == GetEntityColumnName
SpecNames == NamesSpecInit /\ [][NamesNext]_vars

\* calls on one BIDSSchema instance
SchemaSpecInit == ParseIdle /\ SchemaInit /\ BenchIdle /\ LoadIdle
SchemaNext ==
    \/ LoadEntities
    \/ GetEntityMapping
    \/ GetAllEntityShortNames
    \/ GetEntityDisplayNames
SpecSchema == SchemaSpecInit /\ [][SchemaNext]_vars

\* get_default_schema and calls on the instance it returns
DefaultSpecInit == ParseIdle /\ SchemaInit /\ BenchIdle /\ LoadIdle
DefaultNext ==
    \/ GetDefaultSchema
    \/ DefaultLoadEntities
    \/ DefaultGetEntityMapping
    \/ DefaultGetEntityDisplayNames
    \/ DefaultGetAllEntityShortNames
SpecDefault == DefaultSpecInit /\ [][DefaultNext]_vars

\* run_all and print_summary on one BenchmarkSuite
BenchSpecInit == ParseIdle /\ SchemaInit /\ BenchInit /\ LoadIdle
BenchNext ==
    \/ RunAllStart
    \/ RunAllStep
    \/ RunAllReturn
    \/ PrintSummary
SpecBench == BenchSpecInit /\ [][BenchNext]_vars

\* load_tsv_files on one loader of each class over one dataset
LoadSpecInit == LoadInit /\ SchemaInit /\ BenchIdle
LoadNext ==
    \/ LoadTsvSql
    \/ LoadTsvPython
    \/ LoadTsvTableFunction
SpecLoad == LoadSpecInit /\ [][LoadNext]_vars

\* load_tsv_files on loaders that may share one session
SessionSpecInit == SessionInit /\ SchemaInit /\ BenchIdle
SessionNext ==
    \/ LoadTsvSql
    \/ LoadTsvPython
    \/ LoadTsvTableFunction
SpecSession == SessionSpecInit /\ [][SessionNext]_vars

\* constructions of loaders, and calls on the loaders constructed
ConstructSpecInit == ConstructInit /\ SchemaInit /\ BenchIdle
ConstructNext ==
    \/ Construct
    \/ LoadTsvSql
    \/ LoadTsvPython
    \/ LoadTsvTableFunction
    \/ LoadJsonTableFunction
    \/ MaterializeView
SpecConstruct == ConstructSpecInit /\ [][ConstructNext]_vars

\* loads and materialize_view on TableFunctionLoaders
ViewSpecInit == ViewInit /\ SchemaInit /\ BenchIdle
ViewNext ==
    \/ LoadTsvTableFunction
    \/ LoadJsonTableFunction
    \/ MaterializeView
SpecView == ViewSpecInit /\ [][ViewNext]_vars

----------------------------------------------------------------------------
(* Properties *)

\* the text w occurs in s with its first character at position i
OccursAt(s, w, i) == i + Len(w) - 1 <= Len(s) /\ SubSeq(s, i, i + Len(w) - 1) = w

\* the tokens of a well-formed name whose key the loader's schema knows
KnownTokens ==
    { pairs.tokens[i] : i \in {j \in DOMAIN pairs.tokens :
                                 pairs.tokens[j][1] \in DictKeys(entity_short_to_full)} }

\* no known short name stands right before a hyphen anywhere in the input
NoKnownKeyBeforeHyphen ==
    \A k \in DictKeys(entity_short_to_full) :
        \A i \in 1..Len(filepath) : ~OccursAt(filepath, k \o c_dash, i)

\* C3: for a name k1-v1_k2-v2_..._suffix.ext with alphanumeric keys and values
\* and distinct keys, parse_bids_entities returns exactly the pairs (ki, vi)
\* whose ki is a known short name.
C3_WellFormedNameGivesKnownPairs ==
    (parsePc = "done" /\ pairs.wellFormed) => DictItems(entities) = KnownTokens

\* a two-token name with one known and one unknown key has been parsed
C3_Witness ==
    /\ parsePc = "done"
    /\ pairs.wellFormed
    /\ Len(pairs.tokens) = 2
    /\ Cardinality(KnownTokens) = 1
    /\ Len(entities) = 1

\* C4: every key parse_bids_entities returns is a known short name of the
\* loader's schema, and the result is empty when no known key precedes a hyphen
\* in the input.
C4_OnlyKnownKeys ==
    parsePc = "done" =>
        /\ DictKeys(entities) \subseteq DictKeys(entity_short_to_full)
        /\ NoKnownKeyBeforeHyphen => entities = <<>>

\* an input with hyphenated tokens, none of them known, has been parsed to the
\* empty dict
C4_Witness ==
    /\ parsePc = "done"
    /\ FindIter(PathName(filepath), 1) # <<>>
    /\ NoKnownKeyBeforeHyphen
    /\ entities = <<>>

\* C10: load_entities never raises, and a call whose fetch fails returns the
\* 11-entry fallback set, whose mapping sends sub, ses and task to subject,
\* session and task.
C10_FetchFailureGivesFallback ==
    schemaCall = "load_entities" =>
        /\ schemaRet.exc = "none"
        /\ schemaFetch \in FetchFailures =>
              /\ schemaRet.val.kind = "dict"
              /\ Len(schemaRet.val.val) = 11
              /\ LET m == ShortToFull(schemaRet.val.val, <<>>) IN
                 /\ {w_sub, w_ses, w_task} \subseteq DictKeys(m)
                 /\ DictGet(m, w_sub) = w_subject
                 /\ DictGet(m, w_ses) = w_session
                 /\ DictGet(m, w_task) = w_task

\* load_entities has just returned after a fetch that ended in a YAML error
C10_Witness ==
    /\ schemaCall = "load_entities"
    /\ schemaFetch = "YAMLError"
    /\ schemaRet.exc = "none"
    /\ schemaRet.val.kind = "dict"

\* run_all has returned (and print_summary may have run)
BenchReturned == b_pc \in {"returned", "printed"}

\* the i-th requested approach names a loader class and the root exists, so
\* that its loader can be constructed
LoaderConstructible(i) ==
    b_approaches[i] \in KnownApproaches /\ b_world.rootExists

\* C6: run_all returns one BenchmarkResult per requested approach, in request
\* order; a strategy whose load_tsv_files raises has load_time 0 and a
\* non-empty errors list, and every strategy requested after it is still
\* benchmarked (its loader is constructed and its load is run and timed).
C6_LoadFailureIsIsolated ==
    BenchReturned =>
        /\ Len(b_results) = Len(b_approaches)
        /\ \A i \in DOMAIN b_results : b_results[i].approach_name = b_approaches[i]
        /\ \A i \in DOMAIN b_results :
              (LoaderConstructible(i) /\ b_approaches[i] \in b_world.loadFails) =>
                  /\ b_results[i].load_time = 0
                  /\ b_results[i].errors # <<>>
                  /\ \A j \in DOMAIN b_results :
                        (j > i /\ LoaderConstructible(j)) => b_trace[j].loadCalled

\* C7: for a strategy whose loader construction and load succeed, the result
\* has the measured load duration as load_time, a row_counts entry, and for
\* every query of the query set exactly one of a query_times entry and an
\* errors entry naming the query.
C7_SuccessfulStrategyIsMeasured ==
    BenchReturned =>
        \A i \in DOMAIN b_results :
            (LoaderConstructible(i) /\ b_approaches[i] \notin b_world.loadFails) =>
                /\ b_trace[i].loadCalled
                /\ b_results[i].load_time >= 1
                /\ b_results[i].load_time = b_trace[i].measured
                /\ Len(b_results[i].row_counts) = 1
                /\ \A k \in DOMAIN b_queries :
                      DictHas(b_results[i].query_times, b_queries[k])
                          # (\E e \in DOMAIN b_results[i].errors :
                                b_results[i].errors[e] = <<"Query error", b_queries[k]>>)

\* C8: run_all followed by print_summary returns without raising whatever the
\* load and query outcomes were, and the comparison rows hold only strategies
\* with a positive load_time, each with the minimum of the positive load times.
C8_SummaryNeverRaises ==
    /\ b_raised = "none"
    /\ \A k \in DOMAIN b_output :
          /\ b_output[k][2] > 0
          /\ \A i \in DOMAIN b_results :
                b_results[i].load_time > 0 => b_output[k][3] <= b_results[i].load_time

\* C9: an approach name other than sql, python and table_function is fatal to
\* run_all: the error reaches the caller and self.results gets no entry for
\* that name.
C9_UnknownApproachIsFatal ==
    /\ \A i \in DOMAIN b_results : b_results[i].approach_name \in KnownApproaches
    /\ (BenchReturned /\ \E i \in DOMAIN b_approaches : b_approaches[i] \notin KnownApproaches)
          => b_raised = "ValueError"

----------------------------------------------------------------------------
(* Properties of load_tsv_files *)

\* the loader v has returned from load_tsv_files and its session holds the relation
Loaded(v) ==
    /\ l_ret[v].called
    /\ l_ret[v].exc = "none"
    /\ e_catalog[l_con[v]]["bids_tsv_data"].kind = "table"

Relation(v) == e_catalog[l_con[v]]["bids_tsv_data"].rel
HasCol(rel, name) == \E i \in DOMAIN rel.cols : rel.cols[i] = name
ColIndex(rel, name) == CHOOSE i \in DOMAIN rel.cols : rel.cols[i] = name
RowsOf(rel, id) == {k \in DOMAIN rel.rows : rel.rows[k].src = id}

\* the names of the entity columns under use_full_names=True
EntityColumnNames ==
    {get_entity_column_name(entity_short_to_full, entity_short_to_full[i][1], TRUE) :
        i \in DOMAIN entity_short_to_full}

\* the non-null (entity column, value) pairs of the rows of one source file
EntityPairs(rel, id) ==
    { <<rel.cols[i], rel.rows[k].cells[i]>> :
        <<k, i>> \in {x \in RowsOf(rel, id) \X DOMAIN rel.cols :
                        /\ rel.cols[x[2]] \in EntityColumnNames
                        /\ rel.rows[x[1]].cells[x[2]] # Null} }

\* C1: on the fixture tree with the default pattern, load_tsv_files of the
\* three loaders all succeed, and their relations have the same row count and,
\* for each source file, the same set of non-null (entity column, value) pairs.
C1_VariantsAgreeOnFixture ==
    (d_files = FixtureFiles /\ \A v \in Variants : l_ret[v].called) =>
        /\ \A v \in Variants : Loaded(v)
        /\ \A v, w \in Variants :
              /\ Len(Relation(v).rows) = Len(Relation(w).rows)
              /\ \A id \in d_files :
                    EntityPairs(Relation(v), id) = EntityPairs(Relation(w), id)

\* the value the relation of a schema entity must hold in a row of file f
ExpectedCell(f, short) ==
    LET ents == PathEntities[f.id][entity_short_to_full] IN
    IF DictHas(ents, short) THEN DictGet(ents, short) ELSE Null

\* C2: in the relation a loader produced, every schema entity has a column,
\* and every row holds in it the value parse_bids_entities extracts for the
\* entity from the row's source file name, and null when the entity does not
\* occur in that name.
C2_EntityColumnsFollowFileName ==
    \A v \in Variants : Loaded(v) =>
        LET rel == Relation(v) IN
        \A k \in DOMAIN rel.rows : \A i \in DOMAIN entity_short_to_full :
            LET short == entity_short_to_full[i][1]
                col == get_entity_column_name(entity_short_to_full, short, TRUE)
            IN  /\ HasCol(rel, col)
                /\ rel.rows[k].cells[ColIndex(rel, col)]
                      = ExpectedCell(FileOf(rel.rows[k].src), short)

\* the matched files differ in their native columns or in the entities of
\* their names
Heterogeneous(files) ==
    \E a, b \in files :
        \/ FileOf(a).header # FileOf(b).header
        \/ DictKeys(PathEntities[a][entity_short_to_full])
             # DictKeys(PathEntities[b][entity_short_to_full])

\* C5: PythonPreprocessLoader.load_tsv_files succeeds on matched files that
\* differ in native columns or in the entities of their names; the table keeps
\* every column of every file, and a file's rows are null in the columns the
\* file's fragment lacks.
C5_HeterogeneousFilesAreUnioned ==
    (l_ret["python"].called /\ Heterogeneous(d_files)) =>
        /\ Loaded("python")
        /\ \A id \in d_files :
              LET part == FilePart(FileOf(id), entity_short_to_full, TRUE)
                  rel == Relation("python")
              IN  /\ \A i \in DOMAIN part.cols : HasCol(rel, part.cols[i])
                  /\ \A k \in RowsOf(rel, id) : \A j \in DOMAIN rel.cols :
                        (\A i \in DOMAIN part.cols : part.cols[i] # rel.cols[j])
                            => rel.rows[k].cells[j] = Null

----------------------------------------------------------------------------
(* Properties of sessions, views and construction *)

\* the rows a view over the tabular scanner has when every matched file is read
ViewRowCount(pattern) ==
    Len(scan_tsv_files(d_files, pattern, [id \in FileIds |-> FileOf(id).ord],
                       d_files, entity_short_to_full, TRUE))

\* C12: materialize_view(v) on the view v that load_tsv_files of a
\* TableFunctionLoader defined, over an unchanged dataset, leaves a table
\* v_materialized with exactly as many rows as v, after the first call and
\* after every repeated call.
C12_MaterializeMatchesView ==
    [][\A l \in TableFunctionLoaders :
          ( /\ l_last = l
            /\ \/ l_ret[l].op = "load_tsv_files"
               \/ l_ret[l].op = "materialize_view" /\ l_ret[l].pattern = "bids_tsv_data"
            /\ l_last' = l
            /\ l_ret'[l].op = "materialize_view"
            /\ l_ret'[l].pattern = "bids_tsv_data" )
          => /\ l_ret'[l].exc = "none"
             /\ e_catalog'[l_con[l]]["bids_tsv_data"].kind = "view"
             /\ e_catalog'[l_con[l]]["bids_tsv_data_materialized"].kind = "table"
             /\ Len(e_catalog'[l_con[l]]["bids_tsv_data_materialized"].rel.rows)
                  = ViewRowCount(e_catalog'[l_con[l]]["bids_tsv_data"].pattern)]_vars

\* the call made last was load_tsv_files on a loader of class c
LastLoadTsv(l, c) ==
    /\ l_last = l
    /\ ClassOf(l) = c
    /\ l_ret[l].op = "load_tsv_files"

\* C13: when no file matches the pattern, PythonPreprocessLoader.load_tsv_files
\* does not raise and returns 'bids_tsv_data', which then names a table with
\* zero rows and the single column filepath, also when the session held a
\* table of that name before.
C13_NoMatchGivesEmptyTable ==
    \A l \in l_made :
        (LastLoadTsv(l, "python") /\ Matched(d_files, l_ret[l].pattern) = {}) =>
            /\ l_ret[l].exc = "none"
            /\ l_ret[l].val = "bids_tsv_data"
            /\ e_catalog[l_con[l]]["bids_tsv_data"].kind = "table"
            /\ e_catalog[l_con[l]]["bids_tsv_data"].rel = [cols |-> <<w_filepath>>, rows |-> <<>>]

\* the python loader has just loaded with a pattern that matches nothing, in
\* the session into which the sql loader had loaded the rows of the dataset
C13_Witness ==
    /\ LastLoadTsv("python", "python")
    /\ d_files # {}
    /\ Matched(d_files, l_ret["python"].pattern) = {}
    /\ l_con["python"] = l_con["sql"]
    /\ l_ret["sql"].exc = "none"
    /\ l_ret["sql"].val = "bids_tsv_data"
    /\ Matched(d_files, l_ret["sql"].pattern) # {}

\* C14: when no file matches the pattern, SQLRegexLoader.load_tsv_files
\* raises to its caller an error of its own that says no file matched, not
\* the error the engine's read raised, and returns no table name.
C14_NoMatchIsADistinctError ==
    \A l \in l_made :
        (LastLoadTsv(l, "sql") /\ Matched(d_files, l_ret[l].pattern) = {}) =>
            /\ l_ret[l].exc \notin {"none", "duckdb.Error"}
            /\ l_ret[l].val = "none"

----------------------------------------------------------------------------
(* Properties of the default schema *)

\* C11: get_default_schema always returns the same instance, and once it has
\* returned, no later call of get_default_schema or of a method of the
\* instance performs another network fetch, whether the first load got the
\* remote definition or the fallback.
C11_DefaultSchemaIsFetchedOnce ==
    [][g_cached => (schemaFetch' = "none" /\ g_instances' = 1)]_vars

----------------------------------------------------------------------------
(* Properties of the name methods *)

\* C16: for every short name s of the loader's mapping,
\* get_entity_column_name(s, True) is the full name the mapping gives for s
\* and get_entity_column_name(s, False) is s itself; for a name the mapping
\* does not hold, get_entity_full_name returns the name unchanged.
C16_ColumnNameFollowsMapping ==
    parsePc = "done" =>
        /\ DictHas(entity_short_to_full, n_short_name) =>
               /\ n_use_full_names =>
                      n_column_name = DictGet(entity_short_to_full, n_short_name)
               /\ ~n_use_full_names => n_column_name = n_short_name
        /\ ~DictHas(entity_short_to_full, n_short_name) => n_full_name = n_short_name

\* the full name of a short name was asked for and differs from it
C16_Witness ==
    /\ parsePc = "done"
    /\ DictHas(entity_short_to_full, n_short_name)
    /\ n_use_full_names
    /\ n_column_name = w_subject
    /\ n_short_name = w_sub

----------------------------------------------------------------------------
(* Properties of repeated loads in one session *)

\* a load_tsv_files call was made in the session of l before l's last one
EarlierLoadInSession(l) ==
    \/ l_ret[l].tsv_calls >= 2
    \/ \E k \in l_made \ {l} : l_con[k] = l_con[l] /\ l_ret[k].tsv_calls >= 1

\* the source files of the rows bids_tsv_data holds in the session of l
RetainedFiles(l) ==
    LET rel == e_catalog[l_con[l]]["bids_tsv_data"].rel
    IN  {rel.rows[k].src : k \in DOMAIN rel.rows}

\* the load_tsv_files call that l made last, being a later load in its
\* session, succeeded and left bids_tsv_data holding the rows of that load
LaterLoadReplaces(l) ==
    /\ l_ret[l].exc = "none"
    /\ l_ret[l].val = "bids_tsv_data"
    /\ LET obj == e_catalog[l_con[l]]["bids_tsv_data"]
       IN  \/ /\ obj.kind = "table"
              /\ RetainedFiles(l) = Matched(d_files, l_ret[l].pattern)
           \/ /\ obj.kind = "view"
              /\ obj.pattern = l_ret[l].pattern

\* C17: in a session that was loaded into before, by the same loader or by
\* another loader of any class, a later load_tsv_files call whose pattern
\* matches files succeeds and leaves one relation bids_tsv_data holding the
\* rows of the later load alone.
C17_LaterLoadReplaces ==
    \A l \in l_made :
        ( /\ l_last = l
          /\ l_ret[l].op = "load_tsv_files"
          /\ Matched(d_files, l_ret[l].pattern) # {}
          /\ EarlierLoadInSession(l) )
        => LaterLoadReplaces(l)

\* the same for the loaders that build a table
LaterTableLoadReplaces ==
    \A l \in l_made :
        ( /\ l_last = l
          /\ ClassOf(l) \in {"sql", "python"}
          /\ l_ret[l].op = "load_tsv_files"
          /\ Matched(d_files, l_ret[l].pattern) # {}
          /\ EarlierLoadInSession(l) )
        => LaterLoadReplaces(l)

----------------------------------------------------------------------------
(* Properties of the registration of the scanners *)

ScannerNames == {"bids_scan_tsv", "bids_scan_json"}

\* the step is a load_tsv_files or load_json_files call of the loader l
LoadStepOf(l) ==
    /\ l_loads' = l_loads + 1
    /\ l_last' = l
    /\ l_ret'[l].op \in {"load_tsv_files", "load_json_files"}

\* C18: a session holds each of bids_scan_tsv and bids_scan_json at most
\* once, and a load on a TableFunctionLoader whose session already holds both
\* functions, registered through this loader or through another one, leaves
\* the session's functions as they are and completes its registration without
\* an error.
C18_RegistrationIsIdempotent ==
    [][ /\ \A c \in Sessions, n \in ScannerNames :
              Cardinality({f \in e_functions'[c] : f.name = n}) <= 1
        /\ \A l \in TableFunctionLoaders :
              (LoadStepOf(l) /\ ScannerNames \subseteq FunctionNames(e_functions[l_con[l]]))
              => /\ e_functions'[l_con[l]] = e_functions[l_con[l]]
                 /\ l_registered'[l] ]_vars

\* the part of C18 that the engine gives: no function name is held twice
RegisteredAtMostOnce ==
    \A c \in Sessions, n \in ScannerNames :
        Cardinality({f \in e_functions[c] : f.name = n}) <= 1

----------------------------------------------------------------------------
(* Properties of the tabular scanner *)

\* the positions of the rows a file gave to the last scan, in the order yielded
ScannedRowsOf(id) == {k \in DOMAIN l_scan.rows : l_scan.rows[k].src = id}

\* the last scan yielded every row of the file, with the cells of the file
YieldedInFull(id) ==
    LET f == FileOf(id)
        at == ScannedRowsOf(id)
    IN  /\ Cardinality(at) = Len(f.rows)
        /\ \A k \in at :
              LET n == Cardinality({j \in at : j <= k}) IN
              \A i \in DOMAIN f.header :
                  DictGet(l_scan.rows[k].dict, f.header[i]) = f.rows[n][i]

\* C19: when the generator scan_tsv_files is consumed, a matched file whose
\* read raises yields no row, every other matched file yields all of its
\* rows, wherever it stands in the enumeration, and the generator ends without
\* raising.
C19_ScanIsolatesFailingFiles ==
    l_scan.called =>
        /\ l_scan.exc = "none"
        /\ \A id \in Matched(d_files, l_scan.pattern) :
              IF id \in l_scan.readable THEN YieldedInFull(id)
              ELSE ScannedRowsOf(id) = {}
        /\ \A k \in DOMAIN l_scan.rows :
              l_scan.rows[k].src \in Matched(d_files, l_scan.pattern)

\* a scan met a file whose read raised between two files that were read, and
\* yielded rows of both
C19_Witness ==
    /\ l_scan.called
    /\ \E a, b, c \in Matched(d_files, l_scan.pattern) :
          /\ l_scan.order[a] < l_scan.order[b]
          /\ l_scan.order[b] < l_scan.order[c]
          /\ b \notin l_scan.readable
          /\ ScannedRowsOf(a) # {}
          /\ ScannedRowsOf(c) # {}

----------------------------------------------------------------------------
(* Properties of the host-lazy load *)

\* C20: load_tsv_files of a TableFunctionLoader enumerates and reads no
\* file of the dataset; it returns with bids_tsv_data defined as a view over
\* bids_scan_tsv(pattern) that holds no rows of its own, so that the files are
\* enumerated and read by the scanner each time the view is queried.
C20_LoadDefinesLazyView ==
    \A l \in l_made :
        LastLoadTsv(l, "table_function") =>
            /\ l_ret[l].seen = {}
            /\ l_ret[l].exc = "none"
            /\ l_ret[l].val = "bids_tsv_data"
            /\ e_catalog[l_con[l]]["bids_tsv_data"] =
                  [kind |-> "view", rel |-> NoRel, scanner |-> "bids_scan_tsv",
                   pattern |-> l_ret[l].pattern]

\* the part of C20 about the load itself: it enumerates and reads no file
HostLazyLoadReadsNoFile ==
    \A l \in l_made :
        LastLoadTsv(l, "table_function") =>
            /\ l_ret[l].seen = {}
            /\ e_catalog[l_con[l]]["bids_tsv_data"].rel = NoRel

----------------------------------------------------------------------------
(* Properties of the two extractions *)

\* C21: for every source path and every short name s of the schema, the
\* value the SQL loader's regexp_extract column holds for s is the value
\* parse_bids_entities gives for s on that path, and is null exactly when
\* parse_bids_entities gives no value for s.
C21_ExtractionsAgree ==
    parsePc = "done" =>
        \A s \in DOMAIN x_extracts :
            IF DictHas(entities, s) THEN x_extracts[s] = DictGet(entities, s)
            ELSE x_extracts[s] = Null

\* the same with the empty string of regexp_extract read as null
ExtractionsAgreeUpToNull ==
    parsePc = "done" =>
        \A s \in DOMAIN x_extracts :
            IF DictHas(entities, s) THEN x_extracts[s] = DictGet(entities, s)
            ELSE x_extracts[s] = <<>>

\* the same on paths without a directory part
ExtractionsAgreeOnFileNames ==
    (parsePc = "done" /\ PathName(filepath) = filepath) =>
        \A s \in DOMAIN x_extracts :
            IF DictHas(entities, s) THEN x_extracts[s] = DictGet(entities, s)
            ELSE x_extracts[s] = <<>>

----------------------------------------------------------------------------
(* Properties of use_full_names on the host-lazy loader *)

\* the scanner that the view of a load method selects from
ScannerOf(op) == IF op = "load_tsv_files" THEN "bids_scan_tsv" ELSE "bids_scan_json"
ViewOf(op) == IF op = "load_tsv_files" THEN "bids_tsv_data" ELSE "bids_json_metadata"

\* the call made last was load_tsv_files or load_json_files of the
\* TableFunctionLoader l
LastHostLazyLoad(l) ==
    /\ l_last = l
    /\ ClassOf(l) = "table_function"
    /\ l_ret[l].op \in {"load_tsv_files", "load_json_files"}

\* C22: after load_tsv_files(pattern, use_full_names=b) or
\* load_json_files(pattern, use_full_names=b) on a TableFunctionLoader the view
\* of the call exists and the scanner it selects from names the entity columns
\* by that call's b, whatever b an earlier load on the loader was given.
C22_ViewFollowsCallFlag ==
    \A l \in l_made :
        LastHostLazyLoad(l) =>
            /\ l_ret[l].exc = "none"
            /\ e_catalog[l_con[l]][ViewOf(l_ret[l].op)].kind = "view"
            /\ \E f \in e_functions[l_con[l]] :
                  /\ f.name = ScannerOf(l_ret[l].op)
                  /\ f.use_full_names = l_ret[l].use_full_names

\* the part of C22 that does not need the view: once the loader has
\* registered its scanners, the scanner of the last load names the entity
\* columns by that load's use_full_names
ScannerFollowsCallFlag ==
    \A l \in l_made :
        (LastHostLazyLoad(l) /\ l_registered[l]) =>
            \E f \in e_functions[l_con[l]] :
                /\ f.name = ScannerOf(l_ret[l].op)
                /\ f.use_full_names = l_ret[l].use_full_names

----------------------------------------------------------------------------
(* Properties of the materialized snapshot *)

\* the step is materialize_view('bids_tsv_data') on the loader l
MaterializeStepOf(l) ==
    /\ l_loads' = l_loads + 1
    /\ l_last' = l
    /\ l_ret'[l].op = "materialize_view"
    /\ l_ret'[l].pattern = "bids_tsv_data"

\* C23: materialize_view(v) on the view v of a TableFunctionLoader that has
\* called load_tsv_files makes the table v_materialized with the rows v has
\* at that moment and leaves v the view it was; a change of the dataset's
\* files changes no table of any session.
C23_MaterializeIsASnapshot ==
    [][ /\ \A l \in TableFunctionLoaders :
              (MaterializeStepOf(l) /\ l_ret[l].tsv_calls >= 1)
              => /\ l_ret'[l].exc = "none"
                 /\ e_catalog[l_con[l]]["bids_tsv_data"].kind = "view"
                 /\ e_catalog'[l_con[l]]["bids_tsv_data"] = e_catalog[l_con[l]]["bids_tsv_data"]
                 /\ e_catalog'[l_con[l]]["bids_tsv_data_materialized"].kind = "table"
                 /\ Len(e_catalog'[l_con[l]]["bids_tsv_data_materialized"].rel.rows)
                      = ViewRowCount("**/*.tsv")
        /\ d_files' # d_files => e_catalog' = e_catalog ]_vars

\* the part of C23 about the dataset: a change of the files changes no
\* relation of a session
FilesChangeNoRelation ==
    [][d_files' # d_files => e_catalog' = e_catalog]_vars

----------------------------------------------------------------------------
(* Properties of the rows of the tabular scanner *)

\* the place, among the rows of its file, of the row the last scan yielded k-th
RowInFile(k) ==
    Cardinality({j \in ScannedRowsOf(l_scan.rows[k].src) : j <= k})

\* the row the last scan yielded k-th holds the pair of column and value
Holds(k, column, value) ==
    \E i \in DOMAIN l_scan.rows[k].dict : l_scan.rows[k].dict[i] = <<column, value>>

\* the row holds filepath, filename and the entity columns of its file
HoldsAddedColumns(k) ==
    LET f == FileOf(l_scan.rows[k].src)
        ents == FileEntities(f, entity_short_to_full, l_scan.use_full_names)
    IN  /\ Holds(k, w_filepath, f.path)
        /\ Holds(k, w_filename, PathName(f.path))
        /\ \A i \in DOMAIN ents : Holds(k, ents[i][1], ents[i][2])

\* the row holds every column of its file with the value read from the file
HoldsNativeColumns(k) ==
    LET f == FileOf(l_scan.rows[k].src)
    IN  \A i \in DOMAIN f.header : Holds(k, f.header[i], f.rows[RowInFile(k)][i])

\* C24: every row the tabular scanner yields holds every column of its source
\* row with the value read from the file, and filepath, filename and the
\* entity columns of its file, also when the file has a column named filepath,
\* filename or like one of its entity columns.
C24_RowsKeepNativeAndAddedColumns ==
    l_scan.called =>
        \A k \in DOMAIN l_scan.rows : HoldsNativeColumns(k) /\ HoldsAddedColumns(k)

\* the part of C24 about the added columns
RowsHoldAddedColumns ==
    l_scan.called => \A k \in DOMAIN l_scan.rows : HoldsAddedColumns(k)

\* C24 for the files that have no column named like an added one
PlainRowsKeepNativeColumns ==
    l_scan.called =>
        \A k \in DOMAIN l_scan.rows :
            l_scan.rows[k].src \in PlainFiles => HoldsNativeColumns(k)

----------------------------------------------------------------------------
(* Properties of one BIDSSchema instance over several calls *)

Projections ==
    {"get_entity_mapping", "get_entity_display_names", "get_all_entity_short_names"}

\* the short names in what a projection returned
ShortNamesIn(ret) ==
    IF ret.val.kind = "dict" THEN DictKeys(ret.val.val)
    ELSE {ret.val.val[i] : i \in DOMAIN ret.val.val}

\* C25: on one BIDSSchema instance, whatever the fetches do, a load_entities
\* call returns the definition set the load_entities call before it returned,
\* and a projection (get_entity_mapping, get_entity_display_names,
\* get_all_entity_short_names) has the short names the projection called
\* before it had.
C25_OneDefinitionSet ==
    [][ ( /\ schemaCalls' = schemaCalls + 1
          /\ schemaRet.exc = "none"
          /\ schemaRet'.exc = "none" )
        => /\ (schemaCall = "load_entities" /\ schemaCall' = "load_entities")
                 => schemaRet'.val = schemaRet.val
           /\ (schemaCall \in Projections /\ schemaCall' \in Projections)
                 => ShortNamesIn(schemaRet') = ShortNamesIn(schemaRet) ]_vars

\* the part of C25 that the cache of get_entity_mapping gives:
\* get_entity_mapping and get_all_entity_short_names keep their short names
MappingKeepsShortNames ==
    [][ ( /\ schemaCalls' = schemaCalls + 1
          /\ schemaRet.exc = "none"
          /\ schemaRet'.exc = "none"
          /\ schemaCall \in {"get_entity_mapping", "get_all_entity_short_names"}
          /\ schemaCall' \in {"get_entity_mapping", "get_all_entity_short_names"} )
        => ShortNamesIn(schemaRet') = ShortNamesIn(schemaRet) ]_vars

----------------------------------------------------------------------------
(* Properties of load_entities on a malformed document *)

\* the definition sets: mappings of full names to definitions that carry a
\* short name
WellFormedSets == {DictV(FallbackEntities), DictV(RemoteEntities)}

\* C26: a received document that is not a mapping of full names to
\* definitions with a short name is never returned by load_entities and never
\* kept as the instance's definition set: load_entities returns the fallback
\* set instead, and get_entity_mapping does not raise.
C26_MalformedDocumentGivesFallback ==
    /\ schemaCall = "load_entities" =>
          /\ schemaRet.exc = "none"
          /\ schemaRet.val \in WellFormedSets
    /\ s_entities \in WellFormedSets \cup {NoneV}
    /\ schemaCall = "get_entity_mapping" => schemaRet.exc = "none"

\* the part of C26 for the empty document alone: it is not kept
EmptyDocumentIsNotKept ==
    (schemaCall = "load_entities" /\ schemaFetch = "ok" /\ s_entities = NoneV)
        => schemaRet.val = DictV(FallbackEntities)

----------------------------------------------------------------------------
(* Properties of repeated keys *)

\* the places of the tokens of the parsed name whose key is k
TokensOf(k) == {i \in DOMAIN pairs.tokens : pairs.tokens[i][1] = k}

\* C27: when a known key occurs in one or more key-value tokens of the file
\* name, parse_bids_entities returns for it the value of the rightmost of
\* those tokens.
C27_LastOccurrenceWins ==
    parsePc = "done" =>
        \A k \in DictKeys(entity_short_to_full) :
            TokensOf(k) # {} =>
                LET last == CHOOSE i \in TokensOf(k) : \A j \in TokensOf(k) : j <= i
                IN  /\ DictHas(entities, k)
                    /\ DictGet(entities, k) = pairs.tokens[last][2]

\* a name in which a known key occurs twice, with different values, was
\* parsed, and the key has the second value
C27_Witness ==
    /\ parsePc = "done"
    /\ Len(pairs.tokens) = 2
    /\ pairs.tokens[1][1] = w_sub
    /\ pairs.tokens[2][1] = w_sub
    /\ pairs.tokens[1][2] = w_01
    /\ pairs.tokens[2][2] = w_pre
    /\ DictGet(entities, w_sub) = w_pre

----------------------------------------------------------------------------
(* Properties of the sessions of a benchmark run *)

\* C28: every strategy that run_all has finished was benchmarked on an engine
\* session opened for it alone, and that session was closed before run_all
\* went on, whether the strategy ran completely, its loader could not be
\* constructed or its load failed.
C28_SessionsAreOwnAndClosed ==
    \A i \in DOMAIN b_trace : b_trace[i].opened /\ b_trace[i].closed

\* the part of C28 after duckdb.connect(): on the dataset of the suite, a
\* call of _benchmark_approach that has opened its session closes it,
\* whatever the strategy
OpenedSessionIsClosed ==
    \A approach \in ApproachNames, env \in BenchEnvs :
        LET b == benchmark_approach_connected(
                     [NoResult EXCEPT !.approach_name = approach], approach, b_queries,
                     b_world, env)
        IN  b.did.opened => b.did.closed

----------------------------------------------------------------------------
(* Properties of self.results over several runs *)

\* C29: after any sequence of run_all calls on one suite, self.results holds
\* the results of the most recent call and no other: one result per strategy
\* that call was asked for, in the order asked; while that call runs it holds
\* the results of the strategies the call has finished; and the comparison
\* table of print_summary names strategies of the most recent call only.
C29_ResultsAreOfTheLatestRun ==
    /\ b_pc = "loop" => Len(b_results) = b_i
    /\ (BenchReturned /\ b_raised = "none") => Len(b_results) = Len(b_approaches)
    /\ \A i \in DOMAIN b_results :
          /\ i <= Len(b_approaches)
          /\ b_results[i].approach_name = b_approaches[i]
    /\ b_pc = "printed" =>
          \A k \in DOMAIN b_output :
              \E i \in DOMAIN b_approaches : b_output[k][1] = b_approaches[i]

\* a second run_all, asked for one strategy, has returned one result
C29_Witness ==
    /\ b_runs = 2
    /\ b_pc = "returned"
    /\ b_raised = "none"
    /\ Len(b_approaches) = 1
    /\ Len(b_results) = 1

====
